---- MODULE Spec2Model ----
(***************************************************************************)
(* Model of the gemini-reverse proxy: the /v1/chat/completions handler    *)
(* (index.ts) and the helpers it calls (utils.ts).                         *)
(*                                                                         *)
(*   Spec      request translation, from the arrival of the request up to  *)
(*             the call of the Target API (or the error response)          *)
(*   SpecResp  response translation, from the pending Target API call to   *)
(*             the HTTP response                                           *)
(*   SpecPub   the asset publisher (uploadImageToBucketWithFallback)       *)
(***************************************************************************)
EXTENDS Integers, Sequences, FiniteSets, TLC

(***************************************************************************)
(* Bounds                                                                  *)
(***************************************************************************)
\* size of one request: its messages plus their content parts
MaxSize == 4
\* parts in one Target API candidate
MaxRespParts == 3
\* entries in the modalities array of a request
MaxModalities == 2

(***************************************************************************)
(* Strings (JavaScript String methods)                                     *)
(***************************************************************************)
\* an optional value: None for undefined / null / absent, Some(v) otherwise
None == <<>>
Some(v) == <<v>>

\* a ?? b
Nullish(a, b) == IF a = None THEN b ELSE a[1]

\* String.prototype.startsWith
StartsWith(s, p) == Len(s) >= Len(p) /\ SubSeq(s, 1, Len(p)) = p

\* String.prototype.endsWith
EndsWith(s, p) == Len(s) >= Len(p) /\ SubSeq(s, Len(s) - Len(p) + 1, Len(s)) = p

\* String.prototype.includes
Includes(s, p) == \E i \in 1..(Len(s) - Len(p) + 1) : SubSeq(s, i, i + Len(p) - 1) = p

CharAt(s, i) == SubSeq(s, i, i)

\* s.indexOf(p) and s.lastIndexOf(p), counted from 1, 0 when p does not occur
IndexOf(s, p) ==
    IF Includes(s, p)
    THEN CHOOSE i \in 1..Len(s) :
            /\ i + Len(p) - 1 <= Len(s) /\ SubSeq(s, i, i + Len(p) - 1) = p
            /\ \A j \in 1..(i - 1) : SubSeq(s, j, j + Len(p) - 1) /= p
    ELSE 0
LastIndexOf(s, p) ==
    IF Includes(s, p)
    THEN CHOOSE i \in 1..Len(s) :
            /\ i + Len(p) - 1 <= Len(s) /\ SubSeq(s, i, i + Len(p) - 1) = p
            /\ \A j \in (i + 1)..(Len(s) - Len(p) + 1) : SubSeq(s, j, j + Len(p) - 1) /= p
    ELSE 0

UpperChars == <<"A","B","C","D","E","F","G","H","I","J","K","L","M",
                "N","O","P","Q","R","S","T","U","V","W","X","Y","Z">>
LowerChars == <<"a","b","c","d","e","f","g","h","i","j","k","l","m",
                "n","o","p","q","r","s","t","u","v","w","x","y","z">>
Digits == {"0","1","2","3","4","5","6","7","8","9"}

LowerChar(c) ==
    IF \E i \in 1..26 : UpperChars[i] = c
    THEN LowerChars[CHOOSE i \in 1..26 : UpperChars[i] = c]
    ELSE c

RECURSIVE ToLowerCase(_)
ToLowerCase(s) ==
    IF Len(s) = 0 THEN ""
    ELSE LowerChar(CharAt(s, 1)) \o ToLowerCase(SubSeq(s, 2, Len(s)))

UpperChar(c) ==
    IF \E i \in 1..26 : LowerChars[i] = c
    THEN UpperChars[CHOOSE i \in 1..26 : LowerChars[i] = c]
    ELSE c

RECURSIVE ToUpperCase(_)
ToUpperCase(s) ==
    IF Len(s) = 0 THEN ""
    ELSE UpperChar(CharAt(s, 1)) \o ToUpperCase(SubSeq(s, 2, Len(s)))

\* JavaScript truthiness of an optional string
Truthy(o) == o /= None /\ o[1] /= ""

(***************************************************************************)
(* The input alphabet and the remote world                                 *)
(***************************************************************************)
Roles == {"system", "user", "assistant"}
Texts == {"a", "b"}
\* plain string contents
StringContents == {"s"}

ImageUrls == {"https://img.example/a.png"}

\* URLs of the recognized video-hosting forms (11-character video id)
VideoUrls == {"https://youtube.com/watch?v=dQw4w9WgXcQ",
              "youtu.be/dQw4w9WgXcQ?t=42"}
\* URLs that are not of these forms: a 10-character id, a document
OtherFileUrls == {"https://www.youtube.com/shorts/dQw4w9WgXc",
                  "https://files.example/doc.pdf"}
FileUrls == VideoUrls \cup OtherFileUrls

\* the Content-Type header a reachable server sends for a URL (None: no header)
RemoteContentType(url) ==
    CASE url = "https://img.example/a.png" -> Some("image/png")
      [] url = "https://img.example/b"     -> Some("text/html")
      [] url = "https://www.youtube.com/shorts/dQw4w9WgXc" -> Some("text/html")
      [] OTHER -> None

\* the body a reachable server sends for a URL, base64-encoded
RemoteBase64(url) ==
    CASE url = "https://img.example/a.png" -> "iVBORw0KGgo="
      [] url = "https://img.example/b"     -> "/9j/4A=="
      [] url = "https://files.example/doc.pdf" -> "JVBERi0xLjQ="
      [] OTHER -> "aGVsbG8="

\* Buffer.from(base64Data, 'base64'): the bytes as hex and as text
BufferFrom(b64) ==
    CASE b64 = "iVBORw0KGgo=" -> [hex |-> "89504e470d0a1a0a", text |-> "?PNG"]
      [] b64 = "/9j/4A=="     -> [hex |-> "ffd8ffe0", text |-> "????"]
      [] b64 = "JVBERi0xLjQ=" -> [hex |-> "255044462d312e34", text |-> "%PDF-1.4"]
      [] b64 = "aGVsbG8="     -> [hex |-> "68656c6c6f", text |-> "hello"]
      [] b64 = "UEsDBFtDb250ZW50X1R5cGVzXS54bWwgd29yZC8=" ->
             [hex |-> "504b03045b436f6e74656e745f54797065735d2e786d6c20776f72642f",
              text |-> "PK??[Content_Types].xml word/"]
      [] b64 = "0M8R4Fdvcmtib29r" ->
             [hex |-> "d0cf11e0576f726b626f6f6b", text |-> "????Workbook"]
      [] OTHER -> [hex |-> "", text |-> ""]

\* the types mime knows, by extension (the ones that occur here)
MimeTypes == [png |-> "image/png", jpg |-> "image/jpeg", gif |-> "image/gif",
              pdf |-> "application/pdf", mp3 |-> "audio/mpeg"]

\* mime.getType(path): the type of the extension of the last segment of the path in
\* lower case, null when the segment has no extension or the extension is unknown
MimeGetType(path) ==
    LET last == ToLowerCase(SubSeq(path, LastIndexOf(path, "/") + 1, Len(path)))
        ext == SubSeq(last, LastIndexOf(last, ".") + 1, Len(last))
        hasPath == Len(last) < Len(path)
        hasDot == Len(ext) < Len(last) - 1
    IN IF (hasDot \/ ~hasPath) /\ ext \in DOMAIN MimeTypes THEN Some(MimeTypes[ext])
       ELSE None

(***************************************************************************)
(* utils.ts: MIME detection and fetching                                   *)
(***************************************************************************)
getMimeTypeFromBase64(base64Data) ==
    LET binaryData == BufferFrom(base64Data)
        hex == SubSeq(binaryData.hex, 1, IF Len(binaryData.hex) < 40 THEN Len(binaryData.hex) ELSE 40)
        xmlString == ToLowerCase(binaryData.text)
        ascii == binaryData.text
    IN  CASE StartsWith(hex, "89504e47") -> "image/png"
          [] StartsWith(hex, "ffd8ff") -> "image/jpeg"
          [] StartsWith(hex, "47494638") -> "image/gif"
          [] StartsWith(hex, "424d") -> "image/bmp"
          [] StartsWith(hex, "52494646") /\ Includes(hex, "57454250") -> "image/webp"
          [] StartsWith(hex, "000001b3") \/ StartsWith(hex, "000001ba") -> "video/mpeg"
          [] StartsWith(hex, "52494646") /\ Includes(hex, "41564920") -> "video/x-msvideo"
          [] StartsWith(hex, "66747970")
               /\ (Includes(hex, "6d703432") \/ Includes(hex, "4d534e56") \/ Includes(hex, "69736f6d"))
               -> "video/mp4"
          [] StartsWith(hex, "1a45dfa3") -> "video/webm"
          [] StartsWith(hex, "464c56") -> "video/x-flv"
          [] StartsWith(hex, "2e524d46") -> "video/x-rmvb"
          [] StartsWith(hex, "25504446") -> "application/pdf"
          [] StartsWith(hex, "504b0304") ->
               IF Includes(xmlString, "[content_types].xml") /\ Includes(xmlString, "word/")
               THEN "application/vnd.openxmlformats-officedocument.wordprocessingml.document"
               ELSE IF Includes(xmlString, "[content_types].xml") /\ Includes(xmlString, "ppt/")
               THEN "application/vnd.openxmlformats-officedocument.presentationml.presentation"
               ELSE IF Includes(xmlString, "[content_types].xml") /\ Includes(xmlString, "xl/")
               THEN "application/vnd.openxmlformats-officedocument.spreadsheetml.sheet"
               ELSE "application/zip"
          [] StartsWith(hex, "d0cf11e0") ->
               IF Includes(ascii, "WordDocument") THEN "application/msword"
               ELSE IF Includes(ascii, "Workbook") THEN "application/vnd.ms-excel"
               ELSE IF Includes(ascii, "PowerPoint") THEN "application/vnd.ms-powerpoint"
               ELSE "application/x-ms-office"
          [] OTHER -> "application/octet-stream"

\* what the network does with one fetch: the response arrives with a
\* success status, arrives with an error status, or fetch() itself rejects
FetchOutcomes == {[kind |-> "ok"],
                  [kind |-> "status", status |-> "404", statusText |-> "Not Found"],
                  [kind |-> "reject", message |-> "fetch failed"]}

\* fetchFileAsBase64: [ok |-> TRUE, base64Data, mimeType] or [ok |-> FALSE, message]
fetchFileAsBase64(fileUrl, outcome) ==
    IF outcome.kind = "reject" THEN [ok |-> FALSE, message |-> outcome.message]
    ELSE IF outcome.kind = "status"
    THEN [ok |-> FALSE,
          message |-> "Failed to fetch file: " \o outcome.status \o " " \o outcome.statusText
                        \o " from URL: " \o fileUrl]
    ELSE LET base64Data == RemoteBase64(fileUrl)
             header == RemoteContentType(fileUrl)
             detectedMimeType ==
                 IF Truthy(header) THEN header[1]
                 ELSE IF Truthy(MimeGetType(fileUrl)) THEN MimeGetType(fileUrl)[1]
                 ELSE getMimeTypeFromBase64(base64Data)
         IN  [ok |-> TRUE, base64Data |-> base64Data,
              mimeType |-> IF detectedMimeType /= "" THEN detectedMimeType
                           ELSE "application/octet-stream"]

\* mutant of fetchImageResponse: the header is taken as it is, as for files
fetchImageTrustsHeader(imageUrl, outcome, header, base64Data) ==
    IF outcome.kind = "reject" THEN [ok |-> FALSE, message |-> outcome.message]
    ELSE IF outcome.kind = "status"
    THEN [ok |-> FALSE,
          message |-> "Failed to fetch image: " \o outcome.status \o " " \o outcome.statusText
                        \o " from URL: " \o imageUrl]
    ELSE LET typeFromUrl == MimeGetType(imageUrl)
             detectedMimeType ==
                 IF Truthy(header) THEN header[1]
                 ELSE IF Truthy(typeFromUrl) /\ StartsWith(typeFromUrl[1], "image/")
                 THEN typeFromUrl[1]
                 ELSE "image/jpeg"
         IN  [ok |-> TRUE, base64Data |-> base64Data, mimeType |-> detectedMimeType]

\* fetchImageAsBase64 (lines 66-93), given what fetch does: header is
\* response.headers.get('content-type') and base64Data the body of the response
fetchImageResponse(imageUrl, outcome, header, base64Data) ==
    IF outcome.kind = "reject" THEN [ok |-> FALSE, message |-> outcome.message]
    ELSE IF outcome.kind = "status"
    THEN [ok |-> FALSE,
          message |-> "Failed to fetch image: " \o outcome.status \o " " \o outcome.statusText
                        \o " from URL: " \o imageUrl]
    ELSE LET typeFromUrl == MimeGetType(imageUrl)
             detectedMimeType ==
                 IF Truthy(header) /\ StartsWith(header[1], "image/") THEN header[1]
                 ELSE IF Truthy(typeFromUrl) /\ StartsWith(typeFromUrl[1], "image/")
                 THEN typeFromUrl[1]
                 ELSE "image/jpeg"
         IN  [ok |-> TRUE, base64Data |-> base64Data, mimeType |-> detectedMimeType]

\* fetchImageAsBase64 with the servers of this model
fetchImageAsBase64(imageUrl, outcome) ==
    fetchImageResponse(imageUrl, outcome, RemoteContentType(imageUrl), RemoteBase64(imageUrl))

(***************************************************************************)
(* index.ts: YOUTUBE_URL_REGEX. An optional http:// or https://, an        *)
(* optional www., then youtube.com/watch?v=, youtube.com/shorts/,          *)
(* youtube.com/embed/ or youtu.be/, then 11 characters of word characters  *)
(* or '-', then optionally '&' or '?' followed by non-whitespace, anchored *)
(* at both ends, case-insensitive.                                         *)
(***************************************************************************)
\* \w and '-' (case-insensitive match is done on the lower-cased input)
IsWordOrDash(c) ==
    \/ \E i \in 1..26 : LowerChars[i] = c
    \/ c \in Digits
    \/ c \in {"_", "-"}

IsWhitespace(c) == c \in {" ", "\t", "\n", "\r"}

\* the video id is exactly IdLen characters of [\w-]
YoutubeIdLen == 11

YoutubeSchemes == {"", "http://", "https://"}
\* mutant of YoutubeHosts: the short-link form is not recognized
YoutubeHostsNoShortLink == {"youtube.com/watch?v=", "youtube.com/shorts/", "youtube.com/embed/"}

YoutubeHosts == {"youtube.com/watch?v=", "youtube.com/shorts/", "youtube.com/embed/",
                 "youtu.be/"}

\* the regex matches with the given choice of the optional groups and the alternative
YoutubeMatchWith(s, prefix) ==
    LET n == Len(prefix) IN
    /\ StartsWith(s, prefix)
    /\ Len(s) >= n + YoutubeIdLen
    /\ \A i \in 1..YoutubeIdLen : IsWordOrDash(CharAt(s, n + i))
    /\ \/ Len(s) = n + YoutubeIdLen
       \/ /\ Len(s) > n + YoutubeIdLen
          /\ CharAt(s, n + YoutubeIdLen + 1) \in {"&", "?"}
          /\ \A j \in (n + YoutubeIdLen + 2)..Len(s) : ~IsWhitespace(CharAt(s, j))

\* YOUTUBE_URL_REGEX.test(url)
YOUTUBE_URL_REGEX(url) ==
    LET s == ToLowerCase(url) IN
    \E scheme \in YoutubeSchemes : \E www \in {"", "www."} : \E host \in YoutubeHosts :
        YoutubeMatchWith(s, scheme \o www \o host)

\* the outcome of the test for each file URL of the alphabet
IsYoutubeUrl == [url \in FileUrls |-> YOUTUBE_URL_REGEX(url)]

(***************************************************************************)
(* utils.ts: the asset publisher                                           *)
(***************************************************************************)
\* process.env: the variables read by the publisher
DefaultEnv == [BUCKET_API_URL |-> None, BUCKET_API_KEY |-> None,
               TRANSFORM_TARGET_PROTOCOL |-> None, TRANSFORM_TARGET_HOSTNAME |-> None,
               TRANSFORM_TARGET_PORT |-> None, TRANSFORM_SOURCE_HOSTNAME |-> None]
Envs == {DefaultEnv,
         [DefaultEnv EXCEPT !.BUCKET_API_URL = Some("http://localhost:3003/upload"),
                            !.BUCKET_API_KEY = Some("secret")],
         [DefaultEnv EXCEPT !.BUCKET_API_URL = Some("https://bucket.example/api/")],
         [DefaultEnv EXCEPT !.TRANSFORM_TARGET_PROTOCOL = Some("https:"),
                            !.TRANSFORM_TARGET_HOSTNAME = Some("bucket.local"),
                            !.TRANSFORM_TARGET_PORT = Some("8443")]}

\* process.env.X || fallback
EnvOr(v, fallback) == IF Truthy(v) THEN v[1] ELSE fallback

\* lines 303-323
BucketUrl(e) ==
    LET bucketUrl ==
            IF Truthy(e.BUCKET_API_URL) THEN e.BUCKET_API_URL[1]
            ELSE EnvOr(e.TRANSFORM_TARGET_PROTOCOL, "http:") \o "//"
                   \o EnvOr(e.TRANSFORM_TARGET_HOSTNAME, "localhost") \o ":"
                   \o EnvOr(e.TRANSFORM_TARGET_PORT, "3003") \o "/upload"
    IN  IF EndsWith(bucketUrl, "/upload") THEN bucketUrl
        ELSE (IF EndsWith(bucketUrl, "/") THEN SubSeq(bucketUrl, 1, Len(bucketUrl) - 1)
              ELSE bucketUrl) \o "/upload"

getExtensionFromMimeType(mimeType) ==
    LET m == ToLowerCase(mimeType) IN
    CASE m = "image/jpeg" -> ".jpg"
      [] m = "image/jpg" -> ".jpg"
      [] m = "image/png" -> ".png"
      [] m = "image/gif" -> ".gif"
      [] m = "image/webp" -> ".webp"
      [] m = "image/bmp" -> ".bmp"
      [] m = "image/svg+xml" -> ".svg"
      [] m = "image/tiff" -> ".tiff"
      [] m = "image/x-icon" -> ".ico"
      [] OTHER -> ".jpg"

\* Date.now() at the upload, as it is printed into the generated file name
DateNow == "1730800000000"

\* the JSON object bodies of the bucket server; URL fields are strings as
\* declared by ImageUploadResponse, None when the field is absent
EmptyObject == [fileUrl |-> None, success |-> None, url |-> None, error |-> None,
                message |-> None]
StoreUrlA == "https://bucket.example/files/a.png"
StoreUrlB == "http://localhost:3003/files/b.png"

\* bodies of the four accepted shapes
RecognizedBodies ==
    {[object |-> [EmptyObject EXCEPT !.fileUrl = Some(StoreUrlA), !.message = Some("stored")]],
     [object |-> [EmptyObject EXCEPT !.success = Some(TRUE), !.url = Some(StoreUrlB)]],
     [object |-> [EmptyObject EXCEPT !.url = Some(StoreUrlB)]],
     [object |-> [EmptyObject EXCEPT !.success = Some(FALSE), !.url = Some(StoreUrlB)]],
     [object |-> [EmptyObject EXCEPT !.fileUrl = Some(StoreUrlA), !.url = Some(StoreUrlB)]],
     [object |-> [EmptyObject EXCEPT !.fileUrl = Some(StoreUrlA), !.success = Some(FALSE)]],
     [object |-> [EmptyObject EXCEPT !.fileUrl = Some(""), !.url = Some(StoreUrlB)]],
     [string |-> StoreUrlB]}

\* every other body: no URL field, a string that is no URL, an empty body
UnrecognizedBodies ==
    {[object |-> [EmptyObject EXCEPT !.error = Some("file too large")]],
     [object |-> [EmptyObject EXCEPT !.message = Some("no file")]],
     [object |-> [EmptyObject EXCEPT !.success = Some(TRUE)]],
     [object |-> EmptyObject],
     [string |-> "uploaded"],
     [string |-> ""],
     [null |-> TRUE]}

\* what the bucket server does with one upload: answers with a success
\* status, answers with an error status, or cannot be reached
UploadOutcomes ==
    [kind : {"ok"}, data : RecognizedBodies \cup UnrecognizedBodies]
      \cup [kind : {"status"}, status : {"500"}, statusText : {"Internal Server Error"},
            data : {[string |-> "upstream down"],
                    [object |-> [EmptyObject EXCEPT !.error = Some("bad key")]],
                    [object |-> [EmptyObject EXCEPT !.fileUrl = Some(StoreUrlA)]]}]
      \cup [kind : {"reject"}, message : {"connect ECONNREFUSED 127.0.0.1:3003"}]

\* JSON.stringify of an object body
JsonStringify(obj) ==
    LET field(name, v) == IF v = None THEN <<>> ELSE <<"\"" \o name \o "\":\"" \o v[1] \o "\"">>
        flag(name, v) == IF v = None THEN <<>>
                         ELSE <<"\"" \o name \o "\":" \o (IF v[1] THEN "true" ELSE "false")>>
        fields == field("fileUrl", obj.fileUrl) \o flag("success", obj.success)
                    \o field("url", obj.url) \o field("error", obj.error)
                    \o field("message", obj.message)
        Join[i \in 0..Len(fields)] ==
            IF i = 0 THEN ""
            ELSE Join[i - 1] \o (IF i > 1 THEN "," ELSE "") \o fields[i]
    IN  "{" \o Join[Len(fields)] \o "}"

IsObject(data) == "object" \in DOMAIN data
IsStringBody(data) == "string" \in DOMAIN data

\* mutant of ParseUploadResponse: url is looked at before fileUrl
ParseUploadResponseUrlFirst(result) ==
    IF IsObject(result) /\ Truthy(result.object.url)
    THEN [ok |-> TRUE, url |-> result.object.url[1]]
    ELSE IF IsObject(result) /\ Truthy(result.object.fileUrl)
    THEN [ok |-> TRUE, url |-> result.object.fileUrl[1]]
    ELSE IF IsStringBody(result) /\ StartsWith(result.string, "http")
    THEN [ok |-> TRUE, url |-> result.string]
    ELSE [ok |-> FALSE, message |-> "Bucket server upload failed: Unknown response format"]

\* lines 344-363: the response formats, tested in this order
ParseUploadResponse(result) ==
    IF IsObject(result) /\ Truthy(result.object.fileUrl)
    THEN [ok |-> TRUE, url |-> result.object.fileUrl[1]]
    ELSE IF IsObject(result) /\ result.object.success = Some(TRUE) /\ Truthy(result.object.url)
    THEN [ok |-> TRUE, url |-> result.object.url[1]]
    ELSE IF IsObject(result) /\ Truthy(result.object.url)
    THEN [ok |-> TRUE, url |-> result.object.url[1]]
    ELSE IF IsStringBody(result) /\ StartsWith(result.string, "http")
    THEN [ok |-> TRUE, url |-> result.string]
    ELSE [ok |-> FALSE,
          message |-> "Bucket server upload failed: "
                        \o (IF IsObject(result) /\ Truthy(result.object.error)
                            THEN result.object.error[1]
                            ELSE IF IsObject(result) /\ Truthy(result.object.message)
                            THEN result.object.message[1]
                            ELSE "Unknown response format")]

\* lines 285-332: the multipart request that is posted
UploadRequest(base64Data, mimeType, filename, e) ==
    [url |-> BucketUrl(e),
     filename |-> IF Truthy(filename) THEN filename[1]
                  ELSE "generated-image-" \o DateNow \o getExtensionFromMimeType(mimeType),
     contentType |-> mimeType,
     file |-> base64Data,
     apiKey |-> IF Truthy(e.BUCKET_API_KEY) THEN e.BUCKET_API_KEY ELSE None]

\* uploadImageToBucket: [ok |-> TRUE, url] or [ok |-> FALSE, message] for a thrown error
uploadImageToBucket(base64Data, mimeType, filename, e, outcome) ==
    IF outcome.kind = "ok" THEN ParseUploadResponse(outcome.data)
    ELSE IF outcome.kind = "status"
    THEN [ok |-> FALSE,
          message |-> "Failed to upload image to bucket: " \o outcome.status \o " "
                        \o outcome.statusText \o " - "
                        \o (IF IsObject(outcome.data) THEN JsonStringify(outcome.data.object)
                            ELSE outcome.data.string)]
    ELSE [ok |-> FALSE, message |-> outcome.message]

\* mutant of uploadImageToBucketWithFallback: the fallback is always tagged image/png
uploadWithPngFallback(base64Data, mimeType, filename, e, outcome) ==
    LET r == uploadImageToBucket(base64Data, mimeType, filename, e, outcome) IN
    IF r.ok THEN [threw |-> FALSE, value |-> r.url]
    ELSE [threw |-> FALSE, value |-> "data:image/png;base64," \o base64Data]

\* uploadImageToBucketWithFallback: the value returned; nothing in it throws
uploadImageToBucketWithFallback(base64Data, mimeType, filename, e, outcome) ==
    LET r == uploadImageToBucket(base64Data, mimeType, filename, e, outcome) IN
    IF r.ok THEN [threw |-> FALSE, value |-> r.url]
    ELSE [threw |-> FALSE, value |-> "data:" \o mimeType \o ";base64," \o base64Data]

(***************************************************************************)
(* Requests                                                                *)
(***************************************************************************)
\* OpenAIContentPart; "audio_url" stands for a part type this handler does not know
ContentParts ==
    [type : {"text"}, text : Texts]
      \cup [type : {"image_url"}, url : ImageUrls]
      \cup [type : {"file_url"}, url : FileUrls]
      \cup [type : {"audio_url"}]

\* the messages whose content is a list of exactly k parts, and for k = 0
\* also the messages whose content is a plain string
Msgs(k) ==
    {[role |-> r, content |-> [parts |-> ps]] : r \in Roles, ps \in [1..k -> ContentParts]}
      \cup (IF k = 0
            THEN {[role |-> r, content |-> [string |-> t]] : r \in Roles, t \in StringContents}
            ELSE {})

\* the message lists of size at most b
RECURSIVE MessageLists(_)
MessageLists(b) ==
    {<<>>} \cup UNION {{<<m>> \o rest : m \in Msgs(k), rest \in MessageLists(b - 1 - k)} :
                        k \in 0..(b - 1)}

Conversations == MessageLists(MaxSize)

ModelName == "gemini-2.0-flash"

\* an inbound request: the API key found in the Authorization header or the
\* environment (None: neither), and the JSON body
\* the optional fields of the body. An entry of the modalities array is
\* Some(string), or None for an entry that is no string; modalities itself is
\* absent, an array, or a value that is no array
NoOptions == [temperature |-> None, tools |-> None, modalities |-> None,
              reasoning_effort |-> None]
ModalityEntries == {Some("text"), Some("image"), Some("TEXT"), Some("Image"),
                    Some("video"), None}
ModalityValues ==
    {None, [string |-> "text"]}
      \cup {[array |-> a] : a \in UNION {[1..n -> ModalityEntries] : n \in 0..MaxModalities}}
ReasoningEfforts == {None, Some(""), Some("none"), Some("low"), Some("medium"),
                     Some("high"), Some("LOW"), Some("max")}
Temperatures == {None, Some(0), Some(2)}
ToolLists == {None, Some(<<>>), Some(<<[googleSearch |-> TRUE]>>)}
Options ==
    [temperature : {None}, tools : {None}, modalities : ModalityValues,
     reasoning_effort : ReasoningEfforts]
      \cup [temperature : Temperatures, tools : ToolLists, modalities : {None},
            reasoning_effort : {None}]

Body(model, messages, options) ==
    [model |-> model, messages |-> messages, temperature |-> options.temperature,
     tools |-> options.tools, modalities |-> options.modalities,
     reasoning_effort |-> options.reasoning_effort]

\* the conversation of a single user message with the string "s"
PlainConversation == <<[role |-> "user", content |-> [string |-> "s"]]>>

\* the requests: the rejected ones, every conversation without options, and
\* the plain conversation with every choice of options
Requests ==
    {[apiKey |-> None, body |-> Body(Some(ModelName), Some(<<>>), NoOptions)],
     [apiKey |-> Some("key"), body |-> Body(None, Some(<<>>), NoOptions)],
     [apiKey |-> Some("key"), body |-> Body(Some(""), Some(<<>>), NoOptions)],
     [apiKey |-> Some("key"), body |-> Body(Some(ModelName), None, NoOptions)]}
      \cup {[apiKey |-> Some("key"), body |-> Body(Some(ModelName), Some(c), NoOptions)] :
              c \in Conversations}
      \cup {[apiKey |-> Some("key"),
             body |-> Body(Some(ModelName), Some(PlainConversation), o)] : o \in Options}

IsString(content) == "string" \in DOMAIN content

(***************************************************************************)
(* State                                                                   *)
(***************************************************************************)
VARIABLES
    pc,                       \* position of the handler
    req,                      \* the inbound request
    geminiSystemInstruction,  \* None or Some(block)
    msgIdx,                   \* index of the message the loop is at
    partIdx,                  \* index of the part the inner loop is at
    mediaPartsForGemini,
    textPartsForGemini,
    geminiContents,
    fetches,                  \* the fetches issued so far, in order
    apiCalls,                 \* the requests sent to the Target API, in order
    responses,                \* the HTTP responses written, in order
    geminiResponse,           \* None or Some(result of generateContent)
    respIdx,                  \* index of the candidate part being processed
    processedParts,
    uploads,                  \* the upload attempts made so far, in order
    responseContent,          \* None, Some([string |-> s]) or Some([parts |-> list])
    thrown,                   \* None or Some(the error caught by the handler)
    pub,                      \* publisher call under SpecPub: arguments and result
    xform,                    \* transformUrlForLocal call under SpecTransform
    rr,                       \* the redirect resolutions of the answer's citation links
    net,                      \* the remote servers met by the redirect resolutions
    fetchCall                 \* fetchImageAsBase64 call under SpecFetchImage

reqVars == <<geminiSystemInstruction, msgIdx, partIdx, mediaPartsForGemini,
             textPartsForGemini, geminiContents, fetches, apiCalls>>
respVars == <<geminiResponse, respIdx, processedParts, uploads, responseContent, thrown>>
utilVars == <<xform, rr, net, fetchCall>>
vars == <<pc, req, reqVars, responses, respVars, pub, utilVars>>

openAIMessages == req.body.messages[1]

\* res.status(code).json(body)
Respond(code, body) == responses' = Append(responses, [status |-> code, body |-> body])

(***************************************************************************)
(* index.ts: request translation                                           *)
(***************************************************************************)
\* openAIMessages.find(msg => msg.role === 'system'): its index, 0 if none
\* mutant of FirstSystemIndex: the last system message is the one found
LastSystemIndex(msgs) ==
    IF \E i \in 1..Len(msgs) : msgs[i].role = "system"
    THEN CHOOSE i \in 1..Len(msgs) :
            msgs[i].role = "system" /\ \A j \in (i + 1)..Len(msgs) : msgs[j].role /= "system"
    ELSE 0

FirstSystemIndex(msgs) ==
    IF \E i \in 1..Len(msgs) : msgs[i].role = "system"
    THEN CHOOSE i \in 1..Len(msgs) :
            msgs[i].role = "system" /\ \A j \in 1..(i - 1) : msgs[j].role /= "system"
    ELSE 0

\* systemMessage.content.find(p => p.type === 'text'): its index, 0 if none
FirstTextIndex(parts) ==
    IF \E i \in 1..Len(parts) : parts[i].type = "text"
    THEN CHOOSE i \in 1..Len(parts) :
            parts[i].type = "text" /\ \A j \in 1..(i - 1) : parts[j].type /= "text"
    ELSE 0

\* lines 67-84
SystemInstructionOf(msgs) ==
    LET i == FirstSystemIndex(msgs) IN
    IF i = 0 THEN None
    ELSE LET systemMessage == msgs[i] IN
         IF IsString(systemMessage.content)
         THEN Some([parts |-> <<[text |-> systemMessage.content.string]>>, role |-> "system"])
         ELSE LET t == FirstTextIndex(systemMessage.content.parts) IN
              IF t = 0 THEN None
              ELSE Some([parts |-> <<[text |-> systemMessage.content.parts[t].text]>>,
                         role |-> "system"])

\* lines 39-84: the API key from the header or the environment, the body's
\* model and messages, the system instruction
ReceiveRequest ==
    /\ pc = "start"
    /\ IF ~Truthy(req.apiKey)
       THEN /\ Respond(401, [error |-> "API key not provided. Use Bearer token in Authorization header or set GEMINI_API_KEY environment variable."])
            /\ pc' = "done"
            /\ UNCHANGED <<geminiSystemInstruction, geminiContents, msgIdx>>
       ELSE IF ~Truthy(req.body.model) \/ req.body.messages = None
       THEN /\ Respond(400, [error |-> "Missing or invalid model or messages in request body"])
            /\ pc' = "done"
            /\ UNCHANGED <<geminiSystemInstruction, geminiContents, msgIdx>>
       ELSE /\ geminiSystemInstruction' = SystemInstructionOf(openAIMessages)
            /\ geminiContents' = <<>>
            /\ msgIdx' = 1
            /\ pc' = "loop"
            /\ UNCHANGED responses
    /\ UNCHANGED <<req, partIdx, mediaPartsForGemini, textPartsForGemini, fetches, apiCalls,
                   respVars, pub, utilVars>>

\* mutant of GeminiRole: every block is a user block
GeminiRoleAlwaysUser(role) == "user"

\* line 137
GeminiRole(role) == IF role = "assistant" THEN "model" ELSE "user"

\* mutant of PushBlock: a block for every message, with or without parts
PushBlockAlways(contents, role, mediaParts, textParts) ==
    LET currentGeminiParts == mediaParts \o textParts IN
    Append(contents, [role |-> GeminiRole(role), parts |-> currentGeminiParts])

\* mutant of PushBlock: text parts first, then media parts
PushBlockTextFirst(contents, role, mediaParts, textParts) ==
    LET currentGeminiParts == textParts \o mediaParts IN
    IF Len(currentGeminiParts) > 0
    THEN Append(contents, [role |-> IF role = "assistant" THEN "model" ELSE "user",
                           parts |-> currentGeminiParts])
    ELSE contents

\* lines 131-140: media parts first, then text parts; no block without parts
PushBlock(contents, role, mediaParts, textParts) ==
    LET currentGeminiParts == mediaParts \o textParts IN
    IF Len(currentGeminiParts) > 0
    THEN Append(contents, [role |-> GeminiRole(role), parts |-> currentGeminiParts])
    ELSE contents

AtMessage == pc = "loop" /\ msgIdx <= Len(openAIMessages)
openAIMsg == openAIMessages[msgIdx]

\* mutant of SkipSystemMessage: the part list of a system message is
\* translated like the part list of a user message
SystemMessageTranslated ==
    /\ pc = "loop" /\ msgIdx <= Len(openAIMessages)
    /\ openAIMessages[msgIdx].role = "system"
    /\ IF IsString(openAIMessages[msgIdx].content)
       THEN /\ msgIdx' = msgIdx + 1
            /\ UNCHANGED <<pc, partIdx, mediaPartsForGemini, textPartsForGemini>>
       ELSE /\ mediaPartsForGemini' = <<>>
            /\ textPartsForGemini' = <<>>
            /\ partIdx' = 1
            /\ pc' = "parts"
            /\ UNCHANGED msgIdx
    /\ UNCHANGED <<req, geminiSystemInstruction, geminiContents, fetches, apiCalls, responses,
                   respVars, pub, utilVars>>

\* line 88
SkipSystemMessage ==
    /\ AtMessage
    /\ openAIMsg.role = "system"
    /\ msgIdx' = msgIdx + 1
    /\ UNCHANGED <<pc, req, geminiSystemInstruction, partIdx, mediaPartsForGemini,
                   textPartsForGemini, geminiContents, fetches, apiCalls, responses,
                   respVars, pub, utilVars>>

\* lines 89-93 and 131-140: a message whose content is a plain string
StringMessage ==
    /\ AtMessage
    /\ openAIMsg.role /= "system"
    /\ IsString(openAIMsg.content)
    /\ mediaPartsForGemini' = <<>>
    /\ textPartsForGemini' = <<[text |-> openAIMsg.content.string]>>
    /\ geminiContents' = PushBlock(geminiContents, openAIMsg.role,
                                   mediaPartsForGemini', textPartsForGemini')
    /\ msgIdx' = msgIdx + 1
    /\ UNCHANGED <<pc, req, geminiSystemInstruction, partIdx, fetches, apiCalls, responses,
                   respVars, pub, utilVars>>

\* lines 89-95: a message whose content is a list of parts
BeginPartsMessage ==
    /\ AtMessage
    /\ openAIMsg.role /= "system"
    /\ ~IsString(openAIMsg.content)
    /\ mediaPartsForGemini' = <<>>
    /\ textPartsForGemini' = <<>>
    /\ partIdx' = 1
    /\ pc' = "parts"
    /\ UNCHANGED <<req, geminiSystemInstruction, msgIdx, geminiContents, fetches, apiCalls,
                   responses, respVars, pub, utilVars>>

AtPart == pc = "parts" /\ partIdx <= Len(openAIMsg.content.parts)
part == openAIMsg.content.parts[partIdx]

\* lines 96-97
TextPart ==
    /\ AtPart
    /\ part.type = "text"
    /\ textPartsForGemini' = Append(textPartsForGemini, [text |-> part.text])
    /\ partIdx' = partIdx + 1
    /\ UNCHANGED <<pc, req, geminiSystemInstruction, msgIdx, mediaPartsForGemini,
                   geminiContents, fetches, apiCalls, responses, respVars, pub, utilVars>>

\* mutant of ImagePart: a failed fetch is logged and the part skipped
ImagePartSkipsFailure(outcome) ==
    /\ pc = "parts" /\ partIdx <= Len(openAIMessages[msgIdx].content.parts)
    /\ openAIMessages[msgIdx].content.parts[partIdx].type = "image_url"
    /\ LET url == openAIMessages[msgIdx].content.parts[partIdx].url
           r == fetchImageAsBase64(url, outcome) IN
       /\ fetches' = Append(fetches, [fn |-> "fetchImageAsBase64", url |-> url, result |-> r,
                                      msg |-> msgIdx, part |-> partIdx])
       /\ mediaPartsForGemini' =
              IF r.ok THEN Append(mediaPartsForGemini,
                             [inlineData |-> [data |-> r.base64Data, mimeType |-> r.mimeType]])
              ELSE mediaPartsForGemini
    /\ partIdx' = partIdx + 1
    /\ UNCHANGED <<pc, req, geminiSystemInstruction, msgIdx, textPartsForGemini,
                   geminiContents, apiCalls, responses, respVars, pub, utilVars>>

\* lines 98-106
ImagePart(outcome) ==
    /\ AtPart
    /\ part.type = "image_url"
    /\ LET r == fetchImageAsBase64(part.url, outcome) IN
       /\ fetches' = Append(fetches, [fn |-> "fetchImageAsBase64", url |-> part.url,
                                      result |-> r, msg |-> msgIdx, part |-> partIdx])
       /\ IF r.ok
          THEN /\ mediaPartsForGemini' = Append(mediaPartsForGemini,
                     [inlineData |-> [data |-> r.base64Data, mimeType |-> r.mimeType]])
               /\ partIdx' = partIdx + 1
               /\ UNCHANGED <<pc, responses>>
          ELSE /\ Respond(400, [error |-> "Failed to process image from URL: " \o part.url
                                            \o ". " \o r.message])
               /\ pc' = "done"
               /\ UNCHANGED <<partIdx, mediaPartsForGemini>>
    /\ UNCHANGED <<req, geminiSystemInstruction, msgIdx, textPartsForGemini, geminiContents,
                   apiCalls, respVars, pub, utilVars>>

\* lines 107-117: a recognized video link is passed by reference
FileYoutubePart ==
    /\ AtPart
    /\ part.type = "file_url"
    /\ IsYoutubeUrl[part.url]
    /\ mediaPartsForGemini' = Append(mediaPartsForGemini,
           [fileData |-> [fileUri |-> part.url, mimeType |-> "video/*"]])
    /\ partIdx' = partIdx + 1
    /\ UNCHANGED <<pc, req, geminiSystemInstruction, msgIdx, textPartsForGemini,
                   geminiContents, fetches, apiCalls, responses, respVars, pub, utilVars>>

\* mutant of FileFetchPart: a failed fetch is made again
FileFetchPartRetries(outcome) ==
    /\ AtPart
    /\ part.type = "file_url"
    /\ ~IsYoutubeUrl[part.url]
    /\ LET r == fetchFileAsBase64(part.url, outcome) IN
       /\ fetches' = Append(fetches, [fn |-> "fetchFileAsBase64", url |-> part.url,
                                      result |-> r, msg |-> msgIdx, part |-> partIdx])
       /\ IF r.ok
          THEN /\ mediaPartsForGemini' = Append(mediaPartsForGemini,
                     [inlineData |-> [data |-> r.base64Data, mimeType |-> r.mimeType]])
               /\ partIdx' = partIdx + 1
          ELSE UNCHANGED <<partIdx, mediaPartsForGemini>>
    /\ UNCHANGED <<pc, responses, req, geminiSystemInstruction, msgIdx, textPartsForGemini,
                   geminiContents, apiCalls, respVars, pub, utilVars>>

\* lines 118-127
FileFetchPart(outcome) ==
    /\ AtPart
    /\ part.type = "file_url"
    /\ ~IsYoutubeUrl[part.url]
    /\ LET r == fetchFileAsBase64(part.url, outcome) IN
       /\ fetches' = Append(fetches, [fn |-> "fetchFileAsBase64", url |-> part.url,
                                      result |-> r, msg |-> msgIdx, part |-> partIdx])
       /\ IF r.ok
          THEN /\ mediaPartsForGemini' = Append(mediaPartsForGemini,
                     [inlineData |-> [data |-> r.base64Data, mimeType |-> r.mimeType]])
               /\ partIdx' = partIdx + 1
               /\ UNCHANGED <<pc, responses>>
          ELSE /\ Respond(400, [error |-> "Failed to process file from URL: " \o part.url
                                            \o ". " \o r.message])
               /\ pc' = "done"
               /\ UNCHANGED <<partIdx, mediaPartsForGemini>>
    /\ UNCHANGED <<req, geminiSystemInstruction, msgIdx, textPartsForGemini, geminiContents,
                   apiCalls, respVars, pub, utilVars>>

\* lines 96-128: a part of any other type matches no branch
OtherPart ==
    /\ AtPart
    /\ part.type \notin {"text", "image_url", "file_url"}
    /\ partIdx' = partIdx + 1
    /\ UNCHANGED <<pc, req, geminiSystemInstruction, msgIdx, mediaPartsForGemini,
                   textPartsForGemini, geminiContents, fetches, apiCalls, responses,
                   respVars, pub, utilVars>>

\* lines 131-140, after the last part of the message
EndMessage ==
    /\ pc = "parts"
    /\ partIdx > Len(openAIMsg.content.parts)
    /\ geminiContents' = PushBlock(geminiContents, openAIMsg.role,
                                   mediaPartsForGemini, textPartsForGemini)
    /\ msgIdx' = msgIdx + 1
    /\ pc' = "loop"
    /\ UNCHANGED <<req, geminiSystemInstruction, partIdx, mediaPartsForGemini,
                   textPartsForGemini, fetches, apiCalls, responses, respVars, pub, utilVars>>

AfterLoop == pc = "loop" /\ msgIdx > Len(openAIMessages)

\* mutant of IsEmptyConversation: the system instruction is not looked at
IsEmptyIgnoringSystem(contents, systemInstruction) == Len(contents) = 0

\* line 143
IsEmptyConversation(contents, systemInstruction) ==
    Len(contents) = 0 /\ systemInstruction = None

\* lines 143-146
EmptyConversation ==
    /\ AfterLoop
    /\ IsEmptyConversation(geminiContents, geminiSystemInstruction)
    /\ Respond(400, [error |-> "No user/assistant messages or system instruction provided after processing."])
    /\ pc' = "done"
    /\ UNCHANGED <<req, reqVars, respVars, pub, utilVars>>

IsArray(v) == v /= None /\ "array" \in DOMAIN v

\* mutant of ResponseModalities: the entries are passed on as they were given
ResponseModalitiesAsGiven(modalities) ==
    IF ~IsArray(modalities) \/ Len(modalities.array) = 0 THEN None
    ELSE LET given == modalities.array
             Kept[i \in 0..Len(given)] ==
                 IF i = 0 THEN <<>>
                 ELSE IF given[i] = None THEN Kept[i - 1]
                 ELSE IF ToUpperCase(given[i][1]) \in {"TEXT", "IMAGE"}
                      THEN Append(Kept[i - 1], given[i][1])
                      ELSE Kept[i - 1]
         IN  IF Len(Kept[Len(given)]) > 0 THEN Some(Kept[Len(given)]) ELSE None

\* lines 166-186: None when responseModalities is not set
ResponseModalities(modalities) ==
    IF ~IsArray(modalities) \/ Len(modalities.array) = 0 THEN None
    ELSE LET given == modalities.array
             responseModalities[i \in 0..Len(given)] ==
                 IF i = 0 THEN <<>>
                 ELSE IF given[i] = None THEN responseModalities[i - 1]
                 ELSE IF ToUpperCase(given[i][1]) = "TEXT"
                      THEN Append(responseModalities[i - 1], "TEXT")
                 ELSE IF ToUpperCase(given[i][1]) = "IMAGE"
                      THEN Append(responseModalities[i - 1], "IMAGE")
                      ELSE responseModalities[i - 1]
         IN  IF Len(responseModalities[Len(given)]) > 0
             THEN Some(responseModalities[Len(given)])
             ELSE None

\* mutant of ThinkingConfig: an absent reasoning_effort sets the budget 0
ThinkingConfigAlwaysSet(reasoning_effort) ==
    IF ~Truthy(reasoning_effort) THEN Some([thinkingBudget |-> 0])
    ELSE Some([thinkingBudget |->
                   CASE reasoning_effort[1] = "low" -> 1000
                     [] reasoning_effort[1] = "medium" -> 8000
                     [] reasoning_effort[1] = "high" -> 24000
                     [] reasoning_effort[1] = "none" -> 0
                     [] OTHER -> 0])

\* lines 188-212: None when thinkingConfig is not set
ThinkingConfig(reasoning_effort) ==
    IF ~Truthy(reasoning_effort) THEN None
    ELSE Some([thinkingBudget |->
                   CASE reasoning_effort[1] = "low" -> 1000
                     [] reasoning_effort[1] = "medium" -> 8000
                     [] reasoning_effort[1] = "high" -> 24000
                     [] reasoning_effort[1] = "none" -> 0
                     [] OTHER -> 0])

\* lines 149-212: the GenerateContentConfig; a field that is not set is None
geminiAPIConfig(body, systemInstruction) ==
    [temperature |-> Nullish(body.temperature, 1),
     responseMimeType |-> "text/plain",
     systemInstruction |-> systemInstruction,
     tools |-> IF body.tools /= None /\ Len(body.tools[1]) > 0 THEN body.tools ELSE None,
     responseModalities |-> ResponseModalities(body.modalities),
     thinkingConfig |-> ThinkingConfig(body.reasoning_effort)]

\* lines 148-218: the Target API request is built and sent
SendApi ==
    /\ AfterLoop
    /\ ~IsEmptyConversation(geminiContents, geminiSystemInstruction)
    /\ apiCalls' = Append(apiCalls, [model |-> req.body.model[1],
                                     contents |-> geminiContents,
                                     config |-> geminiAPIConfig(req.body,
                                                                geminiSystemInstruction)])
    /\ pc' = "awaitApi"
    /\ UNCHANGED <<req, geminiSystemInstruction, msgIdx, partIdx, mediaPartsForGemini,
                   textPartsForGemini, geminiContents, fetches, responses, respVars, pub, utilVars>>

(***************************************************************************)
(* The Target API's answers                                                *)
(***************************************************************************)
TextOnly(t) == [text |-> t, inlineData |-> None]
Inline(mimeType, data) ==
    [text |-> None, inlineData |-> Some([mimeType |-> Some(mimeType), data |-> data])]

PngData == "iVBORw0KGgo="
JpegData == "/9j/4A=="

\* a Part of the answer carries one kind of data: text, inline data, or
\* something else (a function call, say), which has neither field
ResponseParts ==
    {TextOnly(Some("Hi")), TextOnly(Some("!")), TextOnly(Some("")),
     Inline("image/png", Some(PngData)), Inline("image/jpeg", Some(JpegData)),
     Inline("image/png", Some("")), Inline("audio/wav", Some("UklGRg==")),
     TextOnly(None)}

PartLists == UNION {[1..n -> ResponseParts] : n \in 0..MaxRespParts}

\* the result of generateContent
\* candidate.finishReason: the FinishReason values of the SDK, other strings,
\* or nothing
FinishReasons ==
    {None, Some(""), Some("STOP"), Some("MAX_TOKENS"), Some("SAFETY"), Some("RECITATION"),
     Some("OTHER"), Some("FINISH_REASON_UNSPECIFIED"), Some("IMAGE_SAFETY"),
     Some("MALFORMED_FUNCTION_CALL"), Some("stop"), Some("length"), Some("max_tokens")}

\* usageMetadata: nothing, or a block in which each counter may be missing;
\* candidateTokenCount is the older name of candidatesTokenCount
UsageBlocks ==
    {None} \cup
    {Some(u) : u \in [promptTokenCount : {None, Some(0), Some(10)},
                      candidatesTokenCount : {None, Some(0), Some(5)},
                      candidateTokenCount : {None, Some(7)},
                      totalTokenCount : {None, Some(0), Some(15), Some(99)}]}

GroundedCandidate(content, finishReason, groundingMetadata) ==
    [content |-> content, finishReason |-> finishReason,
     groundingMetadata |-> groundingMetadata]
Candidate(content, finishReason) == GroundedCandidate(content, finishReason, None)
Result(candidates, usageMetadata) ==
    [candidates |-> candidates, usageMetadata |-> usageMetadata]

\* the result of generateContent: every list of parts with a plain ending, and
\* the answer "Hi" with every finish reason and usage block
GeminiResults ==
    {Result(None, None), Result(Some(<<>>), None),
     Result(Some(<<Candidate(None, Some("STOP"))>>), None),
     Result(Some(<<Candidate(Some([parts |-> None]), Some("STOP"))>>), None)}
      \cup {Result(Some(<<Candidate(Some([parts |-> Some(ps)]), Some("STOP"))>>), None) :
              ps \in PartLists}
      \cup {Result(Some(<<Candidate(Some([parts |-> Some(<<TextOnly(Some("Hi"))>>)]), f)>>), u) :
              f \in FinishReasons, u \in UsageBlocks}

\* what the bucket server does with the uploads of one answer
ResponseUploadOutcomes ==
    {[kind |-> "ok",
      data |-> [object |-> [EmptyObject EXCEPT !.fileUrl = Some(StoreUrlA),
                                               !.message = Some("stored")]]],
     [kind |-> "ok", data |-> [object |-> [EmptyObject EXCEPT !.error = Some("file too large")]]],
     [kind |-> "status", status |-> "500", statusText |-> "Internal Server Error",
      data |-> [string |-> "upstream down"]],
     [kind |-> "reject", message |-> "connect ECONNREFUSED 127.0.0.1:3003"]}

(***************************************************************************)
(* index.ts: response translation                                          *)
(***************************************************************************)
\* mutant of isGeminiImagePart: the MIME type is not looked at
isGeminiInlinePart(p) ==
    /\ p.inlineData /= None
    /\ p.inlineData[1].mimeType /= None
    /\ Truthy(p.inlineData[1].data)

\* utils.ts lines 400-402
isGeminiImagePart(p) ==
    /\ p.inlineData /= None
    /\ p.inlineData[1].mimeType /= None
    /\ StartsWith(p.inlineData[1].mimeType[1], "image/")
    /\ Truthy(p.inlineData[1].data)

\* candidate.content?.parts, None when content or parts is missing
CandidateParts(result) ==
    LET candidate == result.candidates[1][1] IN
    IF candidate.content = None THEN None ELSE candidate.content[1].parts

\* line 244
hasMixedContent(result) ==
    /\ CandidateParts(result) /= None
    /\ \E i \in 1..Len(CandidateParts(result)[1]) : isGeminiImagePart(CandidateParts(result)[1][i])

\* line 265: parts.map(part => part.text).filter(Boolean).join('')
JoinTexts(parts) ==
    LET Join[i \in 0..Len(parts)] ==
            IF i = 0 THEN ""
            ELSE Join[i - 1] \o (IF Truthy(parts[i].text) THEN parts[i].text[1] ELSE "")
    IN  Join[Len(parts)]

\* line 214: generateContent resolves
ApiReturns(result) ==
    /\ pc = "awaitApi"
    /\ geminiResponse' = Some(result)
    /\ pc' = "analyze"
    /\ UNCHANGED <<req, reqVars, responses, respIdx, processedParts, uploads,
                   responseContent, pub, utilVars, thrown>>

\* lines 224-239
NoCandidates ==
    /\ pc = "analyze"
    /\ geminiResponse[1].candidates = None \/ geminiResponse[1].candidates = Some(<<>>)
    /\ Respond(500, [error |-> "No content generated by the model."])
    /\ pc' = "done"
    /\ UNCHANGED <<req, reqVars, respVars, pub, utilVars>>

HasCandidate ==
    /\ pc = "analyze"
    /\ geminiResponse[1].candidates /= None
    /\ geminiResponse[1].candidates /= Some(<<>>)

\* lines 262-267: the traditional text-only response
TextOnlyResponse ==
    /\ HasCandidate
    /\ ~hasMixedContent(geminiResponse[1])
    /\ responseContent' =
           Some([string |-> IF CandidateParts(geminiResponse[1]) /= None
                            THEN JoinTexts(CandidateParts(geminiResponse[1])[1])
                            ELSE ""])
    /\ pc' = "respond"
    /\ UNCHANGED <<req, reqVars, responses, geminiResponse, respIdx, processedParts,
                   uploads, pub, utilVars, thrown>>

\* lines 258-261 and utils.ts 405-406: processGeminiResponseParts is entered
BeginMixedResponse ==
    /\ HasCandidate
    /\ hasMixedContent(geminiResponse[1])
    /\ processedParts' = <<>>
    /\ respIdx' = 1
    /\ pc' = "process"
    /\ UNCHANGED <<req, reqVars, responses, geminiResponse, uploads, responseContent, pub, utilVars, thrown>>

\* the parts handed to processGeminiResponseParts
geminiParts == CandidateParts(geminiResponse[1])[1]
AtResponsePart == pc = "process" /\ respIdx <= Len(geminiParts)

\* the entry of one call of uploadImageToBucketWithFallback in the log
UploadEntry(idx, base64Data, mimeType, outcome, returned) ==
    [part |-> idx,
     request |-> UploadRequest(base64Data, mimeType, None, DefaultEnv),
     outcome |-> outcome,
     returned |-> returned]

\* mutant of ProcessImagePart: a failed upload leaves the marker text
ProcessImagePartMarker(outcome) ==
    /\ AtResponsePart
    /\ isGeminiImagePart(geminiParts[respIdx])
    /\ LET inlineData == geminiParts[respIdx].inlineData[1]
           a == uploadImageToBucket(inlineData.data[1], inlineData.mimeType[1], None,
                                    DefaultEnv, outcome)
           r == uploadImageToBucketWithFallback(inlineData.data[1], inlineData.mimeType[1],
                                                None, DefaultEnv, outcome) IN
       /\ uploads' = Append(uploads, UploadEntry(respIdx, inlineData.data[1],
                                                 inlineData.mimeType[1], outcome, r))
       /\ processedParts' =
              IF ~a.ok
              THEN Append(processedParts,
                          [type |-> "text",
                           text |-> "[Image processing failed: " \o a.message \o "]"])
              ELSE Append(processedParts,
                          [type |-> "image_url", image_url |-> [url |-> r.value]])
    /\ respIdx' = respIdx + 1
    /\ UNCHANGED <<pc, req, reqVars, responses, geminiResponse, responseContent, pub, utilVars, thrown>>

\* utils.ts lines 409-433: the image is published, awaited, and its element
\* pushed; the catch block pushes the marker for an error thrown in the try
ProcessImagePart(outcome) ==
    /\ AtResponsePart
    /\ isGeminiImagePart(geminiParts[respIdx])
    /\ LET inlineData == geminiParts[respIdx].inlineData[1]
           r == uploadImageToBucketWithFallback(inlineData.data[1], inlineData.mimeType[1],
                                                None, DefaultEnv, outcome) IN
       /\ uploads' = Append(uploads, UploadEntry(respIdx, inlineData.data[1],
                                                 inlineData.mimeType[1], outcome, r))
       /\ processedParts' =
              IF r.threw
              THEN Append(processedParts,
                          [type |-> "text",
                           text |-> "[Image processing failed: " \o r.message \o "]"])
              ELSE Append(processedParts,
                          [type |-> "image_url", image_url |-> [url |-> r.value]])
    /\ respIdx' = respIdx + 1
    /\ UNCHANGED <<pc, req, reqVars, responses, geminiResponse, responseContent, pub, utilVars, thrown>>

\* mutant of ProcessTextPart: the text element goes to the front of the list
ProcessTextPartFirst ==
    /\ AtResponsePart
    /\ ~isGeminiImagePart(geminiParts[respIdx])
    /\ Truthy(geminiParts[respIdx].text)
    /\ processedParts' = <<[type |-> "text", text |-> geminiParts[respIdx].text[1]]>> \o processedParts
    /\ respIdx' = respIdx + 1
    /\ UNCHANGED <<pc, req, reqVars, responses, geminiResponse, uploads, responseContent, pub, utilVars, thrown>>

\* utils.ts lines 434-440
ProcessTextPart ==
    /\ AtResponsePart
    /\ ~isGeminiImagePart(geminiParts[respIdx])
    /\ Truthy(geminiParts[respIdx].text)
    /\ processedParts' = Append(processedParts,
                                [type |-> "text", text |-> geminiParts[respIdx].text[1]])
    /\ respIdx' = respIdx + 1
    /\ UNCHANGED <<pc, req, reqVars, responses, geminiResponse, uploads, responseContent, pub, utilVars, thrown>>

\* utils.ts line 440: a part that is no image and has no text adds nothing
ProcessOtherPart ==
    /\ AtResponsePart
    /\ ~isGeminiImagePart(geminiParts[respIdx])
    /\ ~Truthy(geminiParts[respIdx].text)
    /\ respIdx' = respIdx + 1
    /\ UNCHANGED <<pc, req, reqVars, responses, geminiResponse, processedParts, uploads,
                   responseContent, pub, utilVars, thrown>>

\* utils.ts line 443 and index.ts line 261
EndProcess ==
    /\ pc = "process"
    /\ respIdx > Len(geminiParts)
    /\ responseContent' = Some([parts |-> processedParts])
    /\ pc' = "respond"
    /\ UNCHANGED <<req, reqVars, responses, geminiResponse, respIdx, processedParts,
                   uploads, pub, utilVars, thrown>>

\* mutant of mapGeminiFinishReasonToOpenAI: the reason is passed on in lower case
mapFinishReasonLowerCase(reason) ==
    IF ~Truthy(reason) THEN "stop" ELSE ToLowerCase(reason[1])

\* types.ts lines 150-165
mapGeminiFinishReasonToOpenAI(reason) ==
    IF ~Truthy(reason) THEN "stop"
    ELSE CASE reason[1] = "STOP" -> "stop"
           [] reason[1] = "MAX_TOKENS" -> "length"
           [] reason[1] = "SAFETY" -> "content_filter"
           [] reason[1] = "RECITATION" -> "stop"
           [] OTHER -> "stop"

\* usageMetadata?.field
UsageField(usageMetadata, field) ==
    IF usageMetadata = None THEN None ELSE usageMetadata[1][field]

\* mutant of Usage: a missing total is replaced by the prompt counter alone
UsagePromptOnlyTotal(usageMetadata) ==
    LET promptTokens == Nullish(UsageField(usageMetadata, "promptTokenCount"), 0)
        completionTokens ==
            Nullish(UsageField(usageMetadata, "candidatesTokenCount"),
                    Nullish(UsageField(usageMetadata, "candidateTokenCount"), 0))
        total == UsageField(usageMetadata, "totalTokenCount")
    IN  [prompt_tokens |-> promptTokens,
         completion_tokens |-> completionTokens,
         total_tokens |-> IF total = None THEN promptTokens ELSE total[1]]

\* lines 274-276 and 322-326
Usage(usageMetadata) ==
    LET promptTokens == Nullish(UsageField(usageMetadata, "promptTokenCount"), 0)
        completionTokens ==
            Nullish(UsageField(usageMetadata, "candidatesTokenCount"),
                    Nullish(UsageField(usageMetadata, "candidateTokenCount"), 0))
    IN  [prompt_tokens |-> promptTokens,
         completion_tokens |-> completionTokens,
         total_tokens |-> Nullish(UsageField(usageMetadata, "totalTokenCount"),
                                  promptTokens + completionTokens)]

\* line 276: geminiResponse.candidates[0].groundingMetadata?.groundingChunks
groundingDataChunks ==
    IF geminiResponse[1].candidates[1][1].groundingMetadata = None THEN None
    ELSE geminiResponse[1].candidates[1][1].groundingMetadata[1].groundingChunks

\* lines 283-295: the chunk with the resolved URL of its link added
ResolvedChunk(chunk, resolution) ==
    IF chunk.web /= None /\ Truthy(chunk.web[1].uri)
    THEN [chunk EXCEPT !.web = Some(chunk.web[1] @@ [resolved_uri |-> resolution.value[1]])]
    ELSE chunk

\* lines 279-303: undefined (the empty record) without grounding chunks
googleGeminiBody ==
    IF groundingDataChunks = None THEN <<>>
    ELSE [google_gemini_body |->
            [groundingMetadata |->
               [groundingChunks |->
                  [i \in 1..Len(rr) |-> ResolvedChunk(groundingDataChunks[1][i], rr[i])]]]]

\* lines 269-329: the chat completion is written; with grounding chunks, once
\* every resolution has returned
SendResponse ==
    /\ \/ pc = "respond" /\ groundingDataChunks = None
       \/ pc = "resolving" /\ \A i \in 1..Len(rr) : rr[i].state \in {"resolved", "skipped"}
    /\ Respond(200, [object |-> "chat.completion",
                     model |-> req.body.model[1],
                     message |-> [role |-> "assistant", content |-> responseContent[1]],
                     finish_reason |->
                         mapGeminiFinishReasonToOpenAI(
                             geminiResponse[1].candidates[1][1].finishReason),
                     usage |-> Usage(geminiResponse[1].usageMetadata)] @@ googleGeminiBody)
    /\ pc' = "done"
    /\ UNCHANGED <<req, reqVars, respVars, pub, utilVars>>

(***************************************************************************)
(* index.ts: the catch block of the handler                                *)
(***************************************************************************)
\* the length of the run of digits (of whitespace) that starts at index i
RECURSIVE DigitRun(_, _)
DigitRun(s, i) == IF i <= Len(s) /\ CharAt(s, i) \in Digits THEN 1 + DigitRun(s, i + 1) ELSE 0
RECURSIVE SpaceRun(_, _)
SpaceRun(s, i) == IF i <= Len(s) /\ IsWhitespace(CharAt(s, i)) THEN 1 + SpaceRun(s, i + 1) ELSE 0

DigitChars == <<"0","1","2","3","4","5","6","7","8","9">>
DigitValue(c) == (CHOOSE n \in 1..10 : DigitChars[n] = c) - 1

\* parseInt(digits, 10) of a string of digits
RECURSIVE ParseInt(_)
ParseInt(digits) ==
    IF Len(digits) = 0 THEN 0
    ELSE 10 * ParseInt(SubSeq(digits, 1, Len(digits) - 1))
           + DigitValue(CharAt(digits, Len(digits)))

\* message.match of "got status:", optional whitespace, digits: the digits of
\* the leftmost match, None when there is no match
MatchGotStatus(message) ==
    LET key == "got status:"
        at(i) == /\ i + Len(key) - 1 <= Len(message)
                 /\ SubSeq(message, i, i + Len(key) - 1) = key
                 /\ DigitRun(message, i + Len(key) + SpaceRun(message, i + Len(key))) > 0
    IN  IF \E i \in 1..Len(message) : at(i)
        THEN LET i == CHOOSE i \in 1..Len(message) : at(i) /\ \A j \in 1..(i - 1) : ~at(j)
                 d == i + Len(key) + SpaceRun(message, i + Len(key))
             IN  Some(SubSeq(message, d, d + DigitRun(message, d) - 1))
        ELSE None

\* message.match of {"error":{"code": followed by digits and a comma
MatchJsonCode(message) ==
    LET key == "{\"error\":{\"code\":"
        at(i) == /\ i + Len(key) - 1 <= Len(message)
                 /\ SubSeq(message, i, i + Len(key) - 1) = key
                 /\ DigitRun(message, i + Len(key)) > 0
                 /\ i + Len(key) + DigitRun(message, i + Len(key)) <= Len(message)
                 /\ CharAt(message, i + Len(key) + DigitRun(message, i + Len(key))) = ","
    IN  IF \E i \in 1..Len(message) : at(i)
        THEN LET i == CHOOSE i \in 1..Len(message) : at(i) /\ \A j \in 1..(i - 1) : ~at(j)
             IN  Some(SubSeq(message, i + Len(key), i + Len(key) + DigitRun(message, i + Len(key)) - 1))
        ELSE None

\* JSON.parse on the texts that reach it: the error.code of the parsed value
\* (None when it has none), or a failure for a text that is no JSON
JsonParse(text) ==
    CASE text = "{\"error\":{\"message\":\"quota\",\"code\":429}}"
             -> [ok |-> TRUE, value |-> [error |-> Some([code |-> Some(429)])]]
      [] text = "{\"error\":{\"message\":\"overloaded\"}}"
             -> [ok |-> TRUE, value |-> [error |-> Some([code |-> None])]]
      [] OTHER -> [ok |-> FALSE]

\* lines 364-379 (pattern 3): None when nothing is extracted
ParsedJsonCode(message) ==
    LET jsonStart == IndexOf(message, "{\"error\":") IN
    IF jsonStart = 0 THEN None
    ELSE LET jsonStr == SubSeq(message, jsonStart, Len(message))
             jsonEnd == LastIndexOf(jsonStr, "}")
             errorJson == JsonParse(SubSeq(jsonStr, 1, jsonEnd))
         IN  IF errorJson.ok /\ errorJson.value.error /= None
             THEN errorJson.value.error[1].code
             ELSE None

\* the messages of the errors thrown by the Target API call
ErrorMessages ==
    {None,
     Some("got status: 429 Too Many Requests. {\"error\":{\"code\":429,\"message\":\"quota\"}}"),
     Some("upstream got status:503 Service Unavailable"),
     Some("{\"error\":{\"code\":503,\"message\":\"overloaded\"}} after got status: 500"),
     Some("got status: unknown"),
     Some("got status: 400 Bad Request. {\"error\":{\"code\":400,\"message\":\"API key not valid. Please pass a valid API key.\"}}"),
     Some("[GoogleGenerativeAI Error]: {\"error\":{\"code\":404,\"message\":\"no such model\"}}"),
     Some("[GoogleGenerativeAI Error]: {\"error\":{\"message\":\"quota\",\"code\":429}}"),
     Some("[GoogleGenerativeAI Error]: {\"error\":{\"message\":\"overloaded\"}}"),
     Some("[GoogleGenerativeAI Error]: {\"error\":{\"message\":\"trunc"),
     Some("[GoogleGenerativeAI Error]: API_KEY_INVALID"),
     Some("fetch failed"),
     Some("{\"error\":{\"code\":429,\"message\":\"quota\"}}"),
     Some("{\"error\":{\"code\":400,\"message\":\"API key not valid. Please pass a valid API key.\"}}")}

\* error.name and error.constructor.name
ErrorNames ==
    {<<"Error", "Error">>, <<"GoogleGenerativeAIError", "GoogleGenerativeAIError">>,
     <<"Error", "GoogleGenerativeAIError">>, <<"ApiError", "ApiError">>,
     <<"TypeError", "TypeError">>}

\* the errors thrown: status and details are fields some errors carry,
\* response is the HTTP response attached by an HTTP client
ThrownErrors ==
    {[name |-> n[1], constructorName |-> n[2], message |-> m, status |-> s, details |-> d,
      response |-> r] :
        n \in ErrorNames, m \in ErrorMessages, s \in {None, Some(418)},
        d \in {None, Some("teapot")},
        r \in {None, Some([status |-> Some(502), data |-> Some("bad gateway")]),
               Some([status |-> Some(502), data |-> None])}}

MessageIncludes(error, text) == error.message /= None /\ Includes(error.message[1], text)

\* line 345
IsGeminiApiError(error) ==
    \/ error.name = "GoogleGenerativeAIError"
    \/ error.constructorName = "GoogleGenerativeAIError"
    \/ MessageIncludes(error, "GoogleGenerativeAI")
    \/ MessageIncludes(error, "got status:")

\* mutant of ExtractedStatus: the JSON fragment is tried before "got status:"
ExtractedStatusJsonFirst(error) ==
    IF error.message = None THEN 500
    ELSE LET message == error.message[1] IN
         IF MatchJsonCode(message) /= None THEN ParseInt(MatchJsonCode(message)[1])
         ELSE IF MatchGotStatus(message) /= None THEN ParseInt(MatchGotStatus(message)[1])
         ELSE IF ParsedJsonCode(message) /= None THEN ParsedJsonCode(message)[1]
         ELSE 500

\* lines 349-381: the status code found in the message, 500 when there is none
ExtractedStatus(error) ==
    IF error.message = None THEN 500
    ELSE LET message == error.message[1] IN
         IF MatchGotStatus(message) /= None THEN ParseInt(MatchGotStatus(message)[1])
         ELSE IF MatchJsonCode(message) /= None THEN ParseInt(MatchJsonCode(message)[1])
         ELSE IF ParsedJsonCode(message) /= None THEN ParsedJsonCode(message)[1]
         ELSE 500

\* lines 383-387
IsInvalidApiKeyError(error) ==
    /\ error.message /= None
    /\ \/ Includes(ToLowerCase(error.message[1]), "api key not valid")
       \/ Includes(ToLowerCase(error.message[1]), "api_key_invalid")

\* res.json drops the fields whose value is undefined
ErrorBody(errorMessage, errorDetails) ==
    IF errorMessage /= None /\ errorDetails /= None
    THEN [error |-> errorMessage[1], details |-> errorDetails[1]]
    ELSE IF errorMessage /= None THEN [error |-> errorMessage[1]]
    ELSE IF errorDetails /= None THEN [details |-> errorDetails[1]]
    ELSE <<>>

\* lines 340-398: the status and the payload answered for a caught error
\* mutant of ErrorResponse: the text of every error is inspected
ErrorResponseInspectsAll(error) ==
    IF IsInvalidApiKeyError(error)
    THEN [status |-> 401,
          body |-> ErrorBody(Some("Invalid Google Gemini API Key"), error.message)]
    ELSE [status |-> ExtractedStatus(error),
          body |-> ErrorBody(Some("Error from Google Gemini API"), error.message)]

ErrorResponse(error) ==
    IF IsGeminiApiError(error)
    THEN IF IsInvalidApiKeyError(error)
         THEN [status |-> 401,
               body |-> ErrorBody(Some("Invalid Google Gemini API Key"), error.message)]
         ELSE [status |-> ExtractedStatus(error),
               body |-> ErrorBody(Some("Error from Google Gemini API"), error.message)]
    ELSE IF error.status /= None
    THEN [status |-> error.status[1],
          body |-> ErrorBody(error.message,
                             IF Truthy(error.details) THEN error.details ELSE error.message)]
    ELSE IF error.response /= None /\ error.response[1].status /= None
              /\ Truthy(error.response[1].data)
    THEN [status |-> error.response[1].status[1],
          body |-> ErrorBody(Some("Error from downstream API"), error.response[1].data)]
    ELSE [status |-> 500, body |-> ErrorBody(Some("Internal server error"), error.message)]

\* the status and payload of every error, computed once
\* the TypeError thrown by new URL(url) for an unparsable url
InvalidUrlError ==
    [name |-> "TypeError", constructorName |-> "TypeError", message |-> Some("Invalid URL"),
     status |-> None, details |-> None, response |-> None]

ErrorResponseOf == [error \in ThrownErrors \cup {InvalidUrlError} |-> ErrorResponse(error)]

\* line 214: generateContent rejects
ApiThrows(error) ==
    /\ pc = "awaitApi"
    /\ thrown' = Some(error)
    /\ pc' = "catch"
    /\ UNCHANGED <<req, reqVars, responses, geminiResponse, respIdx, processedParts,
                   uploads, responseContent, pub, utilVars>>

\* lines 331-398
CatchError ==
    /\ pc = "catch"
    /\ Respond(ErrorResponseOf[thrown[1]].status, ErrorResponseOf[thrown[1]].body)
    /\ pc' = "done"
    /\ UNCHANGED <<req, reqVars, respVars, pub, utilVars>>

(***************************************************************************)
(* URLs: the URL class of the runtime, as far as utils.ts uses it          *)
(* (the constructor, the hostname, port and protocol setters, toString),   *)
(* for URLs of the special schemes, without credentials                    *)
(***************************************************************************)
\* the default port of a scheme; a URL never carries it explicitly
DefaultPort(protocol) ==
    CASE protocol = "http:" -> "80"
      [] protocol = "https:" -> "443"
      [] protocol = "ws:" -> "80"
      [] protocol = "wss:" -> "443"
      [] protocol = "ftp:" -> "21"
      [] OTHER -> "none"

SpecialProtocols == {"http:", "https:", "ws:", "wss:", "ftp:"}

\* the index of the first of "/", "?", "#" in s, 0 when there is none
PathStart(s) ==
    LET found == {i \in 1..Len(s) : CharAt(s, i) \in {"/", "?", "#"}}
    IN IF found = {} THEN 0 ELSE CHOOSE i \in found : \A j \in found : i <= j

IsDigits(s) == \A i \in 1..Len(s) : CharAt(s, i) \in Digits

\* new URL(url): None when the constructor throws
ParseUrl(url) ==
    LET i == IndexOf(url, "://")
    IN IF i <= 1 THEN None
       ELSE LET protocol == ToLowerCase(SubSeq(url, 1, i - 1)) \o ":"
                after == SubSeq(url, i + 3, Len(url))
                p == PathStart(after)
                authority == IF p = 0 THEN after ELSE SubSeq(after, 1, p - 1)
                rest == IF p = 0 THEN "" ELSE SubSeq(after, p, Len(after))
                c == LastIndexOf(authority, ":")
                host == IF c = 0 THEN authority ELSE SubSeq(authority, 1, c - 1)
                portText == IF c = 0 THEN "" ELSE SubSeq(authority, c + 1, Len(authority))
            IN IF \/ protocol \notin SpecialProtocols
                  \/ host = ""
                  \/ Includes(host, " ")
                  \/ ~IsDigits(portText)
               THEN None
               ELSE Some([protocol |-> protocol,
                          hostname |-> ToLowerCase(host),
                          port |-> IF portText = DefaultPort(protocol) THEN "" ELSE portText,
                          rest |-> IF rest = "" \/ CharAt(rest, 1) /= "/"
                                   THEN "/" \o rest ELSE rest])

\* parsedUrl.hostname = value
SetHostname(u, value) ==
    IF value = "" \/ Includes(value, " ") THEN u
    ELSE [u EXCEPT !.hostname = ToLowerCase(value)]

\* parsedUrl.port = value: the default port of the URL's scheme is stored as no port
SetPort(u, value) ==
    IF value = "" THEN [u EXCEPT !.port = ""]
    ELSE IF ~IsDigits(value) THEN u
    ELSE [u EXCEPT !.port = IF value = DefaultPort(u.protocol) THEN "" ELSE value]

\* parsedUrl.protocol = value: a port that is the new scheme's default is dropped
SetProtocol(u, value) ==
    LET c == IndexOf(value, ":")
        protocol == ToLowerCase(IF c = 0 THEN value ELSE SubSeq(value, 1, c - 1)) \o ":"
    IN IF protocol \notin SpecialProtocols THEN u
       ELSE [u EXCEPT !.protocol = protocol,
                      !.port = IF u.port = DefaultPort(protocol) THEN "" ELSE u.port]

\* parsedUrl.toString()
UrlToString(u) ==
    u.protocol \o "//" \o u.hostname \o (IF u.port = "" THEN "" ELSE ":" \o u.port) \o u.rest

\* utils.ts lines 12-40, matching any hostname that ends with the source hostname
transformUrlForSuffix(url, env) ==
    LET parsedUrl == ParseUrl(url)
        sourceHostname == env.TRANSFORM_SOURCE_HOSTNAME
        targetHostname == EnvOr(env.TRANSFORM_TARGET_HOSTNAME, "localhost")
        targetPort == env.TRANSFORM_TARGET_PORT
        targetProtocol == EnvOr(env.TRANSFORM_TARGET_PROTOCOL, "http:")
    IN IF parsedUrl = None THEN url
       ELSE IF Truthy(sourceHostname) /\ EndsWith(parsedUrl[1].hostname, sourceHostname[1])
       THEN LET h == SetHostname(parsedUrl[1], targetHostname)
                p == IF Truthy(targetPort) THEN SetPort(h, targetPort[1]) ELSE h
            IN UrlToString(SetProtocol(p, targetProtocol))
       ELSE url

\* utils.ts lines 12-40
transformUrlForLocal(url, env) ==
    LET parsedUrl == ParseUrl(url)
        sourceHostname == env.TRANSFORM_SOURCE_HOSTNAME
        targetHostname == EnvOr(env.TRANSFORM_TARGET_HOSTNAME, "localhost")
        targetPort == env.TRANSFORM_TARGET_PORT
        targetProtocol == EnvOr(env.TRANSFORM_TARGET_PROTOCOL, "http:")
    IN IF parsedUrl = None THEN url
       ELSE IF Truthy(sourceHostname) /\ parsedUrl[1].hostname = sourceHostname[1]
       THEN LET h == SetHostname(parsedUrl[1], targetHostname)
                p == IF Truthy(targetPort) THEN SetPort(h, targetPort[1]) ELSE h
            IN UrlToString(SetProtocol(p, targetProtocol))
       ELSE url

(***************************************************************************)
(* utils.ts: resolveRedirects, and the resolution of the citation links of *)
(* an answer by the handler (index.ts lines 276-304)                       *)
(***************************************************************************)
\* visitedUrls.size > 10
MaxRedirects == 10

\* the index of the first of "?", "#" in s, 0 when there is none
QueryStart(s) ==
    LET found == {i \in 1..Len(s) : CharAt(s, i) \in {"?", "#"}}
    IN IF found = {} THEN 0 ELSE CHOOSE i \in found : \A j \in found : i <= j

\* new URL(location, url).toString(): None when the constructor throws
ResolveLocation(location, url) ==
    LET base == ParseUrl(url)[1]
        q == QueryStart(base.rest)
        path == IF q = 0 THEN base.rest ELSE SubSeq(base.rest, 1, q - 1)
        dir == SubSeq(path, 1, LastIndexOf(path, "/"))
        parsed == IF Includes(location, "://") THEN ParseUrl(location)
                  ELSE IF StartsWith(location, "//")
                  THEN ParseUrl(base.protocol \o location)
                  ELSE IF StartsWith(location, "/") THEN Some([base EXCEPT !.rest = location])
                  ELSE IF StartsWith(location, "?") \/ StartsWith(location, "#")
                  THEN Some([base EXCEPT !.rest = path \o location])
                  ELSE Some([base EXCEPT !.rest = dir \o location])
    IN IF parsed = None THEN None ELSE Some(UrlToString(parsed[1]))

\* the remote servers: the links of an answer, what every server answers when all
\* is well, and the one place where a server may misbehave
ChainPaths == <<"/0", "/1", "/2", "/3", "/4", "/5", "/6", "/7", "/8", "/9", "/10", "/11",
                "/12">>
ChainHost == "https://r.example"
ChainUrl(k) == ChainHost \o ChainPaths[k]
LinkA == "https://a.example/start"
UrlB == "https://b.example/x"
UrlC == "https://c.example/"
LinkLoop == "https://loop.example/1"

Status(code, location) == [kind |-> "status", statusCode |-> code, location |-> location]
NoAnswer(kind) == [kind |-> kind, statusCode |-> 0, location |-> None]

\* a chain of thirteen redirects, a -> b -> c, and a loop 1 -> 2 -> 3 -> 2
BaseAnswer(url) ==
    IF \E k \in 1..(Len(ChainPaths) - 1) : url = ChainUrl(k)
    THEN Status(302, Some(ChainPaths[(CHOOSE k \in 1..(Len(ChainPaths) - 1) : url = ChainUrl(k)) + 1]))
    ELSE CASE url = LinkA -> Status(301, Some("https://B.example/x"))
           [] url = UrlB -> Status(302, Some("https://c.example"))
           [] url = LinkLoop -> Status(302, Some("/2"))
           [] url = "https://loop.example/2" -> Status(307, Some("3"))
           [] url = "https://loop.example/3" -> Status(302, Some("/2"))
           [] OTHER -> Status(200, None)

\* "slow": the server keeps sending a byte of its answer now and then; the timeout
\* of req.setTimeout is the idle timeout of the socket, started anew by every byte
Faults == {"error", "timeout", "slow", "500", "403", "405 to HEAD", "302 without Location",
           "unparsable Location", "back to the link"}
FaultPlaces == {LinkA, UrlB}
Nets == {[at |-> "nowhere", fault |-> "none"]} \cup [at : FaultPlaces, fault : Faults]

\* what the server of url does with a request
ServerAnswer(world, method, url) ==
    IF url /= world.at THEN BaseAnswer(url)
    ELSE CASE world.fault = "error" -> NoAnswer("error")
           [] world.fault = "timeout" -> NoAnswer("timeout")
           [] world.fault = "slow" -> NoAnswer("slow")
           [] world.fault = "500" -> Status(500, None)
           [] world.fault = "403" -> Status(403, None)
           [] world.fault = "405 to HEAD" ->
                 IF method = "HEAD" THEN Status(405, None) ELSE BaseAnswer(url)
           [] world.fault = "302 without Location" -> Status(302, None)
           [] world.fault = "unparsable Location" -> Status(302, Some("https://"))
           [] world.fault = "back to the link" -> Status(302, Some(LinkA))
           [] OTHER -> BaseAnswer(url)

\* the URLs and the Location headers that occur with these servers, and the two
\* URL computations of resolveRedirects tabulated over them
ServerUrls ==
    {ChainUrl(k) : k \in 1..Len(ChainPaths)}
      \cup {LinkA, UrlB, UrlC, LinkLoop, "https://loop.example/2", "https://loop.example/3"}
LocationHeaders ==
    {ChainPaths[k] : k \in 1..Len(ChainPaths)}
      \cup {"https://B.example/x", "https://c.example", "/2", "3", "https://", LinkA}
IsParsableUrl == [url \in ServerUrls \cup {"not a url"} |-> ParseUrl(url) /= None]
ResolvedLocation ==
    [url \in ServerUrls |-> [location \in LocationHeaders |-> ResolveLocation(location, url)]]

\* mutant of CallResolveRedirects: the visited set is not consulted
CallResolveRedirectsUnchecked(r, url, method) ==
    IF ~IsParsableUrl[url]
    THEN [r EXCEPT !.visitedUrls = @ \cup {url}, !.url = url, !.method = method,
                   !.state = "rejected"]
    ELSE [r EXCEPT !.visitedUrls = @ \cup {url}, !.url = url, !.method = method,
                   !.state = "inflight",
                   !.requests = Append(@, [method |-> method, url |-> url])]

\* lines 157-165 and 219: a call of resolveRedirects up to the request it sends.
\* r is the resolution the call belongs to; the call returns url at once when url
\* was visited, and is rejected when new URL(url) throws in the promise executor
CallResolveRedirects(r, url, method) ==
    IF url \in r.visitedUrls
    THEN [r EXCEPT !.state = "resolved", !.value = Some(url), !.ended = "circular"]
    ELSE IF ~IsParsableUrl[url]
    THEN [r EXCEPT !.visitedUrls = @ \cup {url}, !.url = url, !.method = method,
                   !.state = "rejected"]
    ELSE [r EXCEPT !.visitedUrls = @ \cup {url}, !.url = url, !.method = method,
                   !.state = "inflight",
                   !.requests = Append(@, [method |-> method, url |-> url])]

\* index.ts lines 281-294: the resolution of one chunk as resolveRedirects(uri) starts
StartResolution(chunk) ==
    LET fresh == [uri |-> None, url |-> "", visitedUrls |-> {}, method |-> "HEAD",
                  state |-> "skipped", value |-> None, ended |-> "", requests |-> <<>>]
    IN IF chunk.web /= None /\ Truthy(chunk.web[1].uri)
       THEN CallResolveRedirects([fresh EXCEPT !.uri = chunk.web[1].uri],
                                 chunk.web[1].uri[1], "HEAD")
       ELSE fresh

\* index.ts lines 276-296: every resolution starts before the handler awaits them;
\* a resolution that is rejected at once rejects Promise.all
BeginGrounding ==
    /\ pc = "respond"
    /\ groundingDataChunks /= None
    /\ rr' = [i \in 1..Len(groundingDataChunks[1]) |->
                StartResolution(groundingDataChunks[1][i])]
    /\ IF \E i \in 1..Len(rr') : rr'[i].state = "rejected"
       THEN thrown' = Some(InvalidUrlError) /\ pc' = "catch"
       ELSE thrown' = thrown /\ pc' = "resolving"
    /\ UNCHANGED <<req, reqVars, responses, geminiResponse, respIdx, processedParts,
                   uploads, responseContent, pub, xform, net, fetchCall>>

\* lines 158-220: one call of resolveRedirects run to its end on its own, with the
\* servers of world: the URL it returns, None when it returns none
RECURSIVE resolveRedirects(_, _, _, _)
resolveRedirects(world, url, visitedUrls, method) ==
    IF url \in visitedUrls THEN Some(url)
    ELSE IF ~IsParsableUrl[url] THEN None
    ELSE LET visited == visitedUrls \cup {url}
             res == ServerAnswer(world, method, url)
         IN IF res.kind = "status"
            THEN IF res.statusCode >= 300 /\ res.statusCode < 400 /\ Truthy(res.location)
                 THEN LET redirectUrl == ResolvedLocation[url][res.location[1]]
                      IN IF redirectUrl = None THEN None
                         ELSE IF Cardinality(visited) > MaxRedirects THEN Some(url)
                         ELSE resolveRedirects(world, redirectUrl[1], visited, method)
                 ELSE IF res.statusCode >= 200 /\ res.statusCode < 300 THEN Some(url)
                 ELSE IF res.statusCode \in {403, 405} /\ method = "HEAD"
                 THEN resolveRedirects(world, url, visited \ {url}, "GET")
                 ELSE Some(url)
            ELSE IF res.kind \in {"error", "timeout"} THEN Some(url)
            ELSE None

\* the answer to the request in flight of resolution i
AnswerTo(i) == ServerAnswer(net, rr[i].method, rr[i].url)

InFlight(i) == pc = "resolving" /\ rr[i].state = "inflight"

\* resolve(url), with the branch that resolved kept in ended
Resolve(i, value, branch) ==
    rr' = [rr EXCEPT ![i].state = "resolved", ![i].value = Some(value), ![i].ended = branch]

handlerVars == <<req, reqVars, responses, respVars, pub, xform, net, fetchCall>>

\* mutant of RedirectAnswer: one visited set for all the resolutions of an answer
RedirectAnswerSharedVisited(i) ==
    /\ InFlight(i)
    /\ AnswerTo(i).kind = "status"
    /\ AnswerTo(i).statusCode >= 300 /\ AnswerTo(i).statusCode < 400
    /\ Truthy(AnswerTo(i).location)
    /\ LET redirectUrl == ResolvedLocation[rr[i].url][AnswerTo(i).location[1]]
           shared == [rr[i] EXCEPT !.visitedUrls = UNION {rr[j].visitedUrls : j \in 1..Len(rr)}]
       IN IF redirectUrl = None
          THEN /\ pc' = "crashed"
               /\ rr' = [rr EXCEPT ![i].state = "thrown"]
          ELSE /\ pc' = pc
               /\ IF Cardinality(shared.visitedUrls) > MaxRedirects
                  THEN Resolve(i, rr[i].url, "max redirects")
                  ELSE rr' = [rr EXCEPT ![i] = CallResolveRedirects(shared, redirectUrl[1],
                                                                    rr[i].method)]
    /\ UNCHANGED handlerVars

\* lines 178-187: a redirect. An unparsable Location header throws in the response
\* callback, outside every promise: the process ends on the uncaught exception
RedirectAnswer(i) ==
    /\ InFlight(i)
    /\ AnswerTo(i).kind = "status"
    /\ AnswerTo(i).statusCode >= 300 /\ AnswerTo(i).statusCode < 400
    /\ Truthy(AnswerTo(i).location)
    /\ LET redirectUrl == ResolvedLocation[rr[i].url][AnswerTo(i).location[1]]
       IN IF redirectUrl = None
          THEN /\ pc' = "crashed"
               /\ rr' = [rr EXCEPT ![i].state = "thrown"]
          ELSE /\ pc' = pc
               /\ IF Cardinality(rr[i].visitedUrls) > MaxRedirects
                  THEN Resolve(i, rr[i].url, "max redirects")
                  ELSE rr' = [rr EXCEPT ![i] = CallResolveRedirects(@, redirectUrl[1], @.method)]
    /\ UNCHANGED handlerVars

\* lines 188-189
SuccessAnswer(i) ==
    /\ InFlight(i)
    /\ AnswerTo(i).kind = "status"
    /\ AnswerTo(i).statusCode >= 200 /\ AnswerTo(i).statusCode < 300
    /\ Resolve(i, rr[i].url, "final")
    /\ UNCHANGED <<pc, handlerVars>>

\* mutant of RefusedHeadAnswer: a refused HEAD request ends the resolution
RefusedHeadGivesUp(i) ==
    /\ InFlight(i)
    /\ AnswerTo(i).kind = "status"
    /\ AnswerTo(i).statusCode \in {403, 405}
    /\ rr[i].method = "HEAD"
    /\ Resolve(i, rr[i].url, "status")
    /\ UNCHANGED <<pc, handlerVars>>

\* lines 190-195: HEAD answered 403 or 405, the URL is asked for again with GET
RefusedHeadAnswer(i) ==
    /\ InFlight(i)
    /\ AnswerTo(i).kind = "status"
    /\ AnswerTo(i).statusCode \in {403, 405}
    /\ rr[i].method = "HEAD"
    /\ LET deleted == [rr[i] EXCEPT !.visitedUrls = @ \ {rr[i].url}]
       IN rr' = [rr EXCEPT ![i] = CallResolveRedirects(deleted, rr[i].url, "GET")]
    /\ UNCHANGED <<pc, handlerVars>>

\* lines 196-203: every other status, a redirect without Location included
OtherStatusAnswer(i) ==
    /\ InFlight(i)
    /\ AnswerTo(i).kind = "status"
    /\ ~(AnswerTo(i).statusCode >= 300 /\ AnswerTo(i).statusCode < 400
           /\ Truthy(AnswerTo(i).location))
    /\ ~(AnswerTo(i).statusCode >= 200 /\ AnswerTo(i).statusCode < 300)
    /\ ~(AnswerTo(i).statusCode \in {403, 405} /\ rr[i].method = "HEAD")
    /\ Resolve(i, rr[i].url, "status")
    /\ UNCHANGED <<pc, handlerVars>>

\* lines 206-209
RequestError(i) ==
    /\ InFlight(i)
    /\ AnswerTo(i).kind = "error"
    /\ Resolve(i, rr[i].url, "error")
    /\ UNCHANGED <<pc, handlerVars>>

\* lines 212-216
RequestTimeout(i) ==
    /\ InFlight(i)
    /\ AnswerTo(i).kind = "timeout"
    /\ Resolve(i, rr[i].url, "timeout")
    /\ UNCHANGED <<pc, handlerVars>>

(***************************************************************************)
(* Request translation                                                     *)
(***************************************************************************)
Init ==
    /\ pc = "start"
    /\ req \in Requests
    /\ geminiSystemInstruction = None
    /\ msgIdx = 0
    /\ partIdx = 0
    /\ mediaPartsForGemini = <<>>
    /\ textPartsForGemini = <<>>
    /\ geminiContents = <<>>
    /\ fetches = <<>>
    /\ apiCalls = <<>>
    /\ responses = <<>>
    /\ geminiResponse = None
    /\ respIdx = 0
    /\ processedParts = <<>>
    /\ uploads = <<>>
    /\ responseContent = None
    /\ thrown = None
    /\ pub = None
    /\ xform = None
    /\ fetchCall = None
    /\ rr = <<>>
    /\ net = None

Next ==
    \/ ReceiveRequest
    \/ SkipSystemMessage
    \/ StringMessage
    \/ BeginPartsMessage
    \/ TextPart
    \/ \E outcome \in FetchOutcomes : ImagePart(outcome)
    \/ FileYoutubePart
    \/ \E outcome \in FetchOutcomes : FileFetchPart(outcome)
    \/ OtherPart
    \/ EndMessage
    \/ EmptyConversation
    \/ SendApi

Spec == Init /\ [][Next]_vars

(***************************************************************************)
(* Response translation: the handler from the moment the request           *)
(* "user: s" has been sent to the Target API                               *)
(***************************************************************************)
SentRequest ==
    [apiKey |-> Some("key"), body |-> Body(Some(ModelName), Some(PlainConversation), NoOptions)]

SentContents == <<[role |-> "user", parts |-> <<[text |-> "s"]>>]>>

InitResp ==
    /\ pc = "awaitApi"
    /\ req = SentRequest
    /\ geminiSystemInstruction = None
    /\ msgIdx = 2
    /\ partIdx = 0
    /\ mediaPartsForGemini = <<>>
    /\ textPartsForGemini = <<[text |-> "s"]>>
    /\ geminiContents = SentContents
    /\ fetches = <<>>
    /\ apiCalls = <<[model |-> ModelName, contents |-> SentContents,
                     config |-> geminiAPIConfig(SentRequest.body, None)]>>
    /\ responses = <<>>
    /\ geminiResponse = None
    /\ respIdx = 0
    /\ processedParts = <<>>
    /\ uploads = <<>>
    /\ responseContent = None
    /\ thrown = None
    /\ pub = None
    /\ xform = None
    /\ fetchCall = None
    /\ rr = <<>>
    /\ net = None

NextResp ==
    \/ \E result \in GeminiResults : ApiReturns(result)
    \/ \E error \in ThrownErrors : ApiThrows(error)
    \/ CatchError
    \/ NoCandidates
    \/ TextOnlyResponse
    \/ BeginMixedResponse
    \/ \E outcome \in ResponseUploadOutcomes : ProcessImagePart(outcome)
    \/ ProcessTextPart
    \/ ProcessOtherPart
    \/ EndProcess
    \/ SendResponse

SpecResp == InitResp /\ [][NextResp]_vars

(***************************************************************************)
(* The asset publisher on its own: one call of                             *)
(* uploadImageToBucketWithFallback with arbitrary arguments                *)
(***************************************************************************)
PubBase64 == {PngData, JpegData}
PubMimeTypes == {"image/png", "image/jpeg", "IMAGE/WebP"}
PubFilenames == {None, Some("picture.png")}

InitPub ==
    /\ pc = "publish"
    /\ req = SentRequest
    /\ geminiSystemInstruction = None
    /\ msgIdx = 0
    /\ partIdx = 0
    /\ mediaPartsForGemini = <<>>
    /\ textPartsForGemini = <<>>
    /\ geminiContents = <<>>
    /\ fetches = <<>>
    /\ apiCalls = <<>>
    /\ responses = <<>>
    /\ geminiResponse = None
    /\ respIdx = 0
    /\ processedParts = <<>>
    /\ uploads = <<>>
    /\ responseContent = None
    /\ thrown = None
    /\ pub \in [base64Data : PubBase64, mimeType : PubMimeTypes, filename : PubFilenames,
                env : Envs, outcome : UploadOutcomes, request : {None}, attempt : {None},
                returned : {None}]
    /\ xform = None
    /\ fetchCall = None
    /\ rr = <<>>
    /\ net = None

\* utils.ts lines 470-479, with the attempt of line 472 recorded
Publish ==
    /\ pc = "publish"
    /\ pub' = [pub EXCEPT
                 !.request = Some(UploadRequest(pub.base64Data, pub.mimeType, pub.filename,
                                                pub.env)),
                 !.attempt = Some(uploadImageToBucket(pub.base64Data, pub.mimeType,
                                                      pub.filename, pub.env, pub.outcome)),
                 !.returned = Some(uploadImageToBucketWithFallback(
                                       pub.base64Data, pub.mimeType, pub.filename, pub.env,
                                       pub.outcome))]
    /\ pc' = "published"
    /\ UNCHANGED <<req, reqVars, responses, respVars, utilVars>>

NextPub == Publish

SpecPub == InitPub /\ [][NextPub]_vars

(***************************************************************************)
(* The handler at rest, for the specifications of the helpers of utils.ts  *)
(***************************************************************************)
HandlerAtRest ==
    /\ req = SentRequest
    /\ geminiSystemInstruction = None
    /\ msgIdx = 0
    /\ partIdx = 0
    /\ mediaPartsForGemini = <<>>
    /\ textPartsForGemini = <<>>
    /\ geminiContents = <<>>
    /\ fetches = <<>>
    /\ apiCalls = <<>>
    /\ responses = <<>>
    /\ geminiResponse = None
    /\ respIdx = 0
    /\ processedParts = <<>>
    /\ uploads = <<>>
    /\ responseContent = None
    /\ thrown = None
    /\ pub = None

(***************************************************************************)
(* The URL rewrite on its own: one call of transformUrlForLocal with an    *)
(* arbitrary URL under an arbitrary configuration                          *)
(***************************************************************************)
TransformUrls == {"https://bucket.example.com/files/a.png",
                  "https://bucket.example.com:8443/files/a.png",
                  "https://bucket.example.com:443/files/a.png",
                  "https://Bucket.Example.com/a.png?v=1",
                  "https://bucket.example.com",
                  "https://cdn.bucket.example.com/a.png",
                  "https://bucket.example.com.evil.io/a.png",
                  "http://other.example/a.png",
                  "bucket.example.com/a.png",
                  "not a url"}

TransformEnvs ==
    {[DefaultEnv EXCEPT !.TRANSFORM_SOURCE_HOSTNAME = s, !.TRANSFORM_TARGET_HOSTNAME = h,
                        !.TRANSFORM_TARGET_PORT = p, !.TRANSFORM_TARGET_PROTOCOL = c] :
        s \in {None, Some(""), Some("bucket.example.com"), Some("Bucket.Example.com"),
               Some("example.com")},
        h \in {None, Some("127.0.0.1")},
        p \in {None, Some("3003"), Some("443"), Some("80")},
        c \in {None, Some("https:")}}

InitTransform ==
    /\ pc = "transform"
    /\ HandlerAtRest
    /\ xform \in [url : TransformUrls, env : TransformEnvs, returned : {None}]
    /\ fetchCall = None
    /\ rr = <<>>
    /\ net = None

\* utils.ts lines 12-40
Transform ==
    /\ pc = "transform"
    /\ xform' = [xform EXCEPT !.returned = Some(transformUrlForLocal(xform.url, xform.env))]
    /\ pc' = "transformed"
    /\ UNCHANGED <<req, reqVars, responses, respVars, pub, rr, net, fetchCall>>

NextTransform == Transform

SpecTransform == InitTransform /\ [][NextTransform]_vars

(***************************************************************************)
(* The citation links on their own: the handler has translated the answer  *)
(* "Hi" of the target API and resolves the links of its grounding chunks   *)
(***************************************************************************)
MaxLinks == 2

Chunk(web) == [web |-> web]
Web(uri) == Some([uri |-> uri, title |-> "t"])
Links == {LinkA, ChainUrl(1), LinkLoop, "not a url"}
Chunks == {Chunk(None), Chunk(Web(None))} \cup {Chunk(Web(Some(u))) : u \in Links}
ChunkLists == UNION {[1..n -> Chunks] : n \in 0..MaxLinks}
GroundingMetadatas ==
    {None, Some([groundingChunks |-> None])}
      \cup {Some([groundingChunks |-> Some(cs)]) : cs \in ChunkLists}

\* the answer "Hi" with grounding metadata
GroundedResult(groundingMetadata) ==
    Result(Some(<<GroundedCandidate(Some([parts |-> Some(<<TextOnly(Some("Hi"))>>)]),
                                    Some("STOP"), groundingMetadata)>>), None)

\* the servers misbehave only where a link leads to them
HasLink(groundingMetadata, url) ==
    /\ groundingMetadata /= None
    /\ groundingMetadata[1].groundingChunks /= None
    /\ \E i \in 1..Len(groundingMetadata[1].groundingChunks[1]) :
          groundingMetadata[1].groundingChunks[1][i] = Chunk(Web(Some(url)))

InitGround ==
    /\ pc = "respond"
    /\ req = SentRequest
    /\ geminiSystemInstruction = None
    /\ msgIdx = 2
    /\ partIdx = 0
    /\ mediaPartsForGemini = <<>>
    /\ textPartsForGemini = <<[text |-> "s"]>>
    /\ geminiContents = SentContents
    /\ fetches = <<>>
    /\ apiCalls = <<[model |-> ModelName, contents |-> SentContents,
                     config |-> geminiAPIConfig(SentRequest.body, None)]>>
    /\ responses = <<>>
    /\ \E g \in GroundingMetadatas :
          /\ geminiResponse = Some(GroundedResult(g))
          /\ net \in IF HasLink(g, LinkA) THEN Nets ELSE {[at |-> "nowhere", fault |-> "none"]}
    /\ respIdx = 0
    /\ processedParts = <<>>
    /\ uploads = <<>>
    /\ responseContent = Some([string |-> "Hi"])
    /\ thrown = None
    /\ pub = None
    /\ xform = None
    /\ fetchCall = None
    /\ rr = <<>>

NextGround ==
    \/ BeginGrounding
    \/ \E i \in 1..Len(rr) : RedirectAnswer(i)
    \/ \E i \in 1..Len(rr) : SuccessAnswer(i)
    \/ \E i \in 1..Len(rr) : RefusedHeadAnswer(i)
    \/ \E i \in 1..Len(rr) : OtherStatusAnswer(i)
    \/ \E i \in 1..Len(rr) : RequestError(i)
    \/ \E i \in 1..Len(rr) : RequestTimeout(i)
    \/ SendResponse
    \/ CatchError

SpecGround == InitGround /\ [][NextGround]_vars

\* a request in flight is answered, fails or times out
ServerStep ==
    \E i \in 1..Len(rr) :
        \/ RedirectAnswer(i)
        \/ SuccessAnswer(i)
        \/ RefusedHeadAnswer(i)
        \/ OtherStatusAnswer(i)
        \/ RequestError(i)
        \/ RequestTimeout(i)

\* the same with progress: an answer, an error or a timeout that can happen does
\* happen (the event loop runs every callback that is due)
LiveGround == InitGround /\ [][NextGround]_vars /\ WF_vars(ServerStep)

(***************************************************************************)
(* The image fetch on its own: one call of fetchImageAsBase64 with an       *)
(* arbitrary URL and an arbitrary response                                 *)
(***************************************************************************)
FetchImageUrls == {"https://img.example/a.png", "https://img.example/A.PNG",
                   "https://img.example/a.png?v=1", "https://img.example/photo.JPG",
                   "https://img.example/b", "https://files.example/doc.pdf",
                   "https://img.example/v1.2/picture"}
ContentTypeHeaders == {None, Some(""), Some("image/png"), Some("image/webp; q=1"),
                       Some("Image/PNG"), Some("text/html"),
                       Some("application/octet-stream")}

InitFetchImage ==
    /\ pc = "fetchImage"
    /\ HandlerAtRest
    /\ xform = None
    /\ rr = <<>>
    /\ net = None
    /\ fetchCall \in [imageUrl : FetchImageUrls, outcome : FetchOutcomes,
                       header : ContentTypeHeaders, base64Data : {PngData, JpegData},
                       returned : {None}]

\* utils.ts lines 66-93
FetchImage ==
    /\ pc = "fetchImage"
    /\ fetchCall' = [fetchCall EXCEPT
                       !.returned = Some(fetchImageResponse(fetchCall.imageUrl,
                                             fetchCall.outcome, fetchCall.header,
                                             fetchCall.base64Data))]
    /\ pc' = "fetchedImage"
    /\ UNCHANGED <<req, reqVars, responses, respVars, pub, xform, rr, net>>

NextFetchImage == FetchImage

SpecFetchImage == InitFetchImage /\ [][NextFetchImage]_vars

(***************************************************************************)
(* The handler from the request to the response. The answers of the target *)
(* API are translated for the plain conversation; the answers with         *)
(* citation links start where the handler reads the grounding chunks       *)
(***************************************************************************)
InitHandler == Init \/ InitGround

NextHandler ==
    \/ Next
    \/ req = SentRequest /\ NextResp
    \/ NextGround

SpecHandler == InitHandler /\ [][NextHandler]_vars

(***************************************************************************)
(* Properties of request translation (checked under Spec)                  *)
(***************************************************************************)
Last(seq) == seq[Len(seq)]
MapSeq(f(_), seq) == [i \in 1..Len(seq) |-> f(seq[i])]

IsMediaSource(p) == p.type \in {"image_url", "file_url"}
IsTextSource(p) == p.type = "text"
IsTextTarget(p) == "text" \in DOMAIN p

\* what a source part must resolve to: its text, the referenced video link,
\* or the content found at its URL
SourceKey(p) ==
    IF p.type = "text" THEN <<"text", p.text>>
    ELSE IF p.type = "file_url" /\ p.url \in VideoUrls THEN <<"reference", p.url>>
    ELSE <<"inline", RemoteBase64(p.url)>>

\* what a target part carries
TargetKey(p) ==
    IF "text" \in DOMAIN p THEN <<"text", p.text>>
    ELSE IF "fileData" \in DOMAIN p THEN <<"reference", p.fileData.fileUri>>
    ELSE <<"inline", p.inlineData.data>>

\* the parts a message must yield: media in source order, then texts in source order
ExpectedKeys(msg) ==
    IF IsString(msg.content) THEN << <<"text", msg.content.string>> >>
    ELSE MapSeq(SourceKey, SelectSeq(msg.content.parts, IsMediaSource))
           \o MapSeq(SourceKey, SelectSeq(msg.content.parts, IsTextSource))

TranslationStarted == pc \in {"loop", "parts", "awaitApi"} \/ msgIdx > 0

\* C1: the block pushed for a non-system message whose content is a list of
\* parts holds exactly its resolved media parts in source order followed by
\* its text parts in source order, and in no block sent to the Target API does
\* a text part precede an inline-data or file-reference part.
C1_MediaBeforeText ==
    /\ (pc = "loop" /\ msgIdx > 1) =>
          LET msg == openAIMessages[msgIdx - 1] IN
          (msg.role /= "system" /\ ~IsString(msg.content) /\ ExpectedKeys(msg) /= <<>>) =>
             /\ geminiContents /= <<>>
             /\ MapSeq(TargetKey, Last(geminiContents).parts) = ExpectedKeys(msg)
    /\ \A c \in 1..Len(apiCalls) : \A b \in 1..Len(apiCalls[c].contents) :
          LET parts == apiCalls[c].contents[b].parts IN
          \A i \in 1..Len(parts) : \A j \in 1..Len(parts) :
             (i < j /\ IsTextTarget(parts[i])) => IsTextTarget(parts[j])

\* the message [text, image, text] was sent as [image, text, text]
C1_Witness ==
    /\ pc = "awaitApi"
    /\ Len(openAIMessages) = 1
    /\ openAIMessages[1].role = "user"
    /\ ~IsString(openAIMessages[1].content)
    /\ MapSeq(LAMBDA p : p.type, openAIMessages[1].content.parts)
          = <<"text", "image_url", "text">>
    /\ Len(apiCalls) = 1
    /\ MapSeq(LAMBDA p : TargetKey(p)[1], apiCalls[1].contents[1].parts)
          = <<"inline", "text", "text">>

\* C2: a failed fetch of an image_url part or of a non-video file_url part is
\* the last fetch of the request; the Target API is not called; the request is
\* answered once, with status 400 and an error that names the failing URL and
\* the fetch failure and carries none of the media fetched before.
C2_FetchFailureAborts ==
    \A i \in 1..Len(fetches) :
       ~fetches[i].result.ok =>
          /\ i = Len(fetches)
          /\ pc = "done"
          /\ apiCalls = <<>>
          /\ Len(responses) = 1
          /\ responses[1].status = 400
          /\ DOMAIN responses[1].body = {"error"}
          /\ Includes(responses[1].body.error, fetches[i].url)
          /\ Includes(responses[1].body.error, fetches[i].result.message)
          /\ \A j \in 1..(i - 1) :
                ~Includes(responses[1].body.error, fetches[j].result.base64Data)

\* the second media part of a request failed after the first had been fetched
C2_Witness ==
    /\ Len(fetches) = 2
    /\ fetches[1].result.ok
    /\ ~fetches[2].result.ok
    /\ Len(responses) = 1

IsNonSystem(msg) == msg.role /= "system"
YieldsParts(msg) == msg.role /= "system" /\ ExpectedKeys(msg) /= <<>>

\* the blocks are these messages, one each and in order, with the roles mapped
BlocksAre(contents, msgs) ==
    /\ Len(contents) = Len(msgs)
    /\ \A i \in 1..Len(msgs) :
          /\ contents[i].role = (IF msgs[i].role = "assistant" THEN "model" ELSE "user")
          /\ MapSeq(TargetKey, contents[i].parts) = ExpectedKeys(msgs[i])

\* C3 as stated: the contents sent hold exactly one block for every message
\* whose role is not system, in message order, with role model for assistant
\* and user otherwise.
C3_OneBlockPerNonSystemMessage ==
    \A c \in 1..Len(apiCalls) :
       BlocksAre(apiCalls[c].contents, SelectSeq(openAIMessages, IsNonSystem))

\* C3 amended: the contents sent hold exactly one block for every non-system
\* message that yields at least one part, in message order, with role model for
\* assistant and user otherwise; a non-system message that yields no part (an
\* empty part list, or only parts of an unrecognized type) has no block.
C3_OneBlockPerYieldingMessage ==
    \A c \in 1..Len(apiCalls) :
       BlocksAre(apiCalls[c].contents, SelectSeq(openAIMessages, YieldsParts))

\* an assistant message and a user message were sent as a model block and a user block
C3_Witness ==
    /\ Len(apiCalls) = 1
    /\ Len(openAIMessages) = 2
    /\ openAIMessages[1].role = "assistant"
    /\ openAIMessages[2].role = "user"
    /\ MapSeq(LAMBDA b : b.role, apiCalls[1].contents) = <<"model", "user">>

\* C4: a file_url part with a URL of a recognized video-hosting form becomes a
\* file reference with the URL unchanged and MIME type video/*, and no fetch is
\* issued for it; any other file_url part is fetched and becomes inline data.
C4_VideoLinksByReference ==
    /\ \A i \in 1..Len(fetches) :
          fetches[i].fn = "fetchFileAsBase64" => fetches[i].url \notin VideoUrls
    /\ (pc = "parts" /\ partIdx > 1) =>
          LET prev == openAIMsg.content.parts[partIdx - 1] IN
          prev.type = "file_url" =>
             IF prev.url \in VideoUrls
             THEN Last(mediaPartsForGemini)
                    = [fileData |-> [fileUri |-> prev.url, mimeType |-> "video/*"]]
             ELSE /\ fetches /= <<>>
                  /\ Last(fetches).fn = "fetchFileAsBase64"
                  /\ Last(fetches).url = prev.url
                  /\ "inlineData" \in DOMAIN Last(mediaPartsForGemini)
                  /\ Last(mediaPartsForGemini).inlineData.data = RemoteBase64(prev.url)
    /\ (pc = "done" /\ msgIdx > 0 /\ msgIdx <= Len(openAIMessages) /\ partIdx > 0) =>
          LET cur == openAIMessages[msgIdx].content.parts[partIdx] IN
          cur.type = "file_url" => (cur.url \notin VideoUrls /\ Last(fetches).url = cur.url)

\* a short link with a query was passed by reference with no fetch, and a
\* near-miss (10-character id) was fetched, in the same message
C4_Witness ==
    /\ pc = "parts"
    /\ partIdx = 3
    /\ openAIMsg.content.parts[1] = [type |-> "file_url", url |-> "youtu.be/dQw4w9WgXcQ?t=42"]
    /\ openAIMsg.content.parts[2] = [type |-> "file_url",
                                     url |-> "https://www.youtube.com/shorts/dQw4w9WgXc"]
    /\ Len(fetches) = 1
    /\ "fileData" \in DOMAIN mediaPartsForGemini[1]
    /\ "inlineData" \in DOMAIN mediaPartsForGemini[2]

LoopCompleted == msgIdx > 0 /\ msgIdx > Len(openAIMessages)

\* C10: when the loop completes with zero content blocks and no system
\* instruction the request is answered 400 with the empty-conversation error
\* (not a fetch error) and the Target API is not called; in every other case
\* the completed translation is sent, also with zero content blocks.
C10_EmptyConversationRejected ==
    /\ \A c \in 1..Len(apiCalls) :
          ~(apiCalls[c].contents = <<>> /\ apiCalls[c].config.systemInstruction = None)
    /\ (LoopCompleted /\ pc = "done") =>
          /\ geminiContents = <<>>
          /\ geminiSystemInstruction = None
          /\ apiCalls = <<>>
          /\ fetches = <<>> \/ Last(fetches).result.ok
          /\ responses = <<[status |-> 400, body |-> [error |->
               "No user/assistant messages or system instruction provided after processing."]]>>
    /\ (LoopCompleted /\ pc = "awaitApi") =>
          /\ Len(apiCalls) = 1
          /\ apiCalls[1].contents = geminiContents
          /\ responses = <<>>

\* a request with a system instruction and zero content blocks was sent
C10_Witness ==
    /\ pc = "awaitApi"
    /\ Len(apiCalls) = 1
    /\ apiCalls[1].contents = <<>>
    /\ apiCalls[1].config.systemInstruction /= None

\* a request was rejected as an empty conversation after a media part was fetched
C10_WitnessRejected ==
    /\ pc = "done"
    /\ LoopCompleted
    /\ Len(openAIMessages) > 0
    /\ Len(responses) = 1

IsSystemMsg(msg) == msg.role = "system"
SystemMessages == SelectSeq(openAIMessages, IsSystemMsg)

\* the parts of the system instruction that the first system message gives:
\* its string, or the first of its text parts, or none
FirstSystemParts ==
    IF SystemMessages = <<>> THEN <<>>
    ELSE LET content == Head(SystemMessages).content IN
         IF IsString(content) THEN <<[text |-> content.string]>>
         ELSE LET texts == SelectSeq(content.parts, IsTextSource) IN
              IF texts = <<>> THEN <<>> ELSE <<[text |-> Head(texts).text]>>

SystemPartsOf(systemInstruction) ==
    IF systemInstruction = None THEN <<>> ELSE systemInstruction[1].parts

\* C11: the system instruction is built from the first system message only
\* (its string as one text part, or the first text part of its part list);
\* the other system messages add nothing to it, and no system message has a
\* block in the contents list
C11_FirstSystemMessageOnly ==
    /\ TranslationStarted => SystemPartsOf(geminiSystemInstruction) = FirstSystemParts
    /\ TranslationStarted =>
           /\ Len(geminiContents) <= Len(SelectSeq(openAIMessages, IsNonSystem))
           /\ \A b \in 1..Len(geminiContents) : geminiContents[b].role \in {"user", "model"}
    /\ \A c \in 1..Len(apiCalls) :
           /\ SystemPartsOf(apiCalls[c].config.systemInstruction) = FirstSystemParts
           /\ BlocksAre(apiCalls[c].contents, SelectSeq(openAIMessages, YieldsParts))

\* two system messages, the first with two text parts: only the first text
\* part of the first message is sent, with no block
C11_Witness ==
    /\ apiCalls /= <<>>
    /\ Len(openAIMessages) = 2
    /\ openAIMessages[1] = [role |-> "system",
                            content |-> [parts |-> <<[type |-> "text", text |-> "a"],
                                                     [type |-> "text", text |-> "b"]>>]]
    /\ openAIMessages[2] = [role |-> "system", content |-> [string |-> "s"]]
    /\ apiCalls[1].config.systemInstruction[1].parts = <<[text |-> "a"]>>
    /\ apiCalls[1].contents = <<>>

\* C14: reasoning_effort none, low, medium, high set the thinking budget 0,
\* 1000, 8000, 24000 in the Target API request; without the field the
\* thinking configuration is not set at all, which differs from the budget 0
\* of none
C14_ReasoningEffortTable ==
    \A c \in 1..Len(apiCalls) :
       LET effort == req.body.reasoning_effort
           thinkingConfig == apiCalls[c].config.thinkingConfig IN
       /\ effort = Some("none") => thinkingConfig = Some([thinkingBudget |-> 0])
       /\ effort = Some("low") => thinkingConfig = Some([thinkingBudget |-> 1000])
       /\ effort = Some("medium") => thinkingConfig = Some([thinkingBudget |-> 8000])
       /\ effort = Some("high") => thinkingConfig = Some([thinkingBudget |-> 24000])
       /\ effort = None => thinkingConfig = None

\* a request with reasoning_effort none was sent with the budget 0 set
C14_Witness ==
    /\ apiCalls /= <<>>
    /\ req.body.reasoning_effort = Some("none")
    /\ apiCalls[1].config.thinkingConfig = Some([thinkingBudget |-> 0])

\* a request without reasoning_effort was sent with no thinking configuration
C14_WitnessAbsent ==
    /\ apiCalls /= <<>>
    /\ req.body.reasoning_effort = None
    /\ req.body.modalities /= None
    /\ apiCalls[1].config.thinkingConfig = None

IsRecognizedModality(entry) ==
    entry /= None /\ ToLowerCase(entry[1]) \in {"text", "image"}

\* the recognized entries of the modalities field, upper-cased, in input order
RecognizedModalities ==
    LET m == req.body.modalities IN
    IF m = None \/ "array" \notin DOMAIN m THEN <<>>
    ELSE LET kept == SelectSeq(m.array, IsRecognizedModality) IN
         [i \in 1..Len(kept) |-> ToUpperCase(kept[i][1])]

\* C15: the entries of modalities that are text or image in any letter case
\* are sent upper-cased and in input order, the others are dropped, and when
\* the field is absent, empty, or left with no recognized entry,
\* responseModalities is not set
C15_ModalitiesFiltered ==
    \A c \in 1..Len(apiCalls) :
       LET responseModalities == apiCalls[c].config.responseModalities IN
       IF RecognizedModalities = <<>>
       THEN responseModalities = None
       ELSE responseModalities = Some(RecognizedModalities)

\* Image before text, in mixed case: sent as IMAGE, TEXT
C15_Witness ==
    /\ apiCalls /= <<>>
    /\ req.body.modalities = [array |-> <<Some("Image"), Some("text")>>]
    /\ apiCalls[1].config.responseModalities = Some(<<"IMAGE", "TEXT">>)

\* an unrecognized entry alone: responseModalities is not set
C15_WitnessDropped ==
    /\ apiCalls /= <<>>
    /\ req.body.modalities = [array |-> <<Some("video")>>]
    /\ apiCalls[1].config.responseModalities = None

\* C17 as stated: every aborted translation (validation failure, empty
\* conversation, media fetch failure, upstream error) is answered with a
\* payload that carries both an error field and a details field
C17_ErrorAndDetails ==
    \A i \in 1..Len(responses) :
       responses[i].status >= 400 => {"error", "details"} \subseteq DOMAIN responses[i].body

(***************************************************************************)
(* Properties of response translation (checked under SpecResp)             *)
(***************************************************************************)
\* the parts of the answer's first candidate, empty when it has none
TargetParts ==
    IF geminiResponse = None \/ geminiResponse[1].candidates \in {None, Some(<<>>)}
         \/ CandidateParts(geminiResponse[1]) = None
    THEN <<>>
    ELSE CandidateParts(geminiResponse[1])[1]

\* an inline-data part is a part that carries a payload
CarriesInlineData(p) ==
    p.inlineData /= None /\ p.inlineData[1].data \notin {None, Some("")}
HasImageMime(p) ==
    LET m == p.inlineData[1].mimeType[1] IN Len(m) >= 6 /\ SubSeq(m, 1, 6) = "image/"
IsImageInlinePart(p) == CarriesInlineData(p) /\ HasImageMime(p)
HasText(p) == p.text \notin {None, Some("")}

RECURSIVE ConcatTexts(_)
ConcatTexts(ps) ==
    IF ps = <<>> THEN ""
    ELSE (IF HasText(Head(ps)) THEN Head(ps).text[1] ELSE "") \o ConcatTexts(Tail(ps))

AnyImageInlinePart == \E i \in 1..Len(TargetParts) : IsImageInlinePart(TargetParts[i])
Completed == pc = "done" /\ responses /= <<>> /\ Last(responses).status = 200
Content == Last(responses).body.message.content
IsList(c) == "parts" \in DOMAIN c

\* C5: the content of a written completion is a list exactly when some part
\* of the answer is an inline-data part (a part carrying a payload) whose MIME
\* type starts with image/; otherwise it is the string made of the texts of
\* the parts that have text, in order, with no separator
C5_ListIffImagePart ==
    Completed =>
        /\ IsList(Content) <=> AnyImageInlinePart
        /\ ~IsList(Content) => Content.string = ConcatTexts(TargetParts)

\* the example of the specification: a text followed by a PNG gives a list of two
C5_Witness ==
    /\ Completed
    /\ TargetParts = <<TextOnly(Some("Hi")), Inline("image/png", Some(PngData))>>
    /\ IsList(Content)
    /\ Len(Content.parts) = 2

\* inline data of another family between two texts gives the string "Hi!"
C5_WitnessString ==
    /\ Completed
    /\ TargetParts = <<TextOnly(Some("Hi")), Inline("audio/wav", Some("UklGRg==")),
                       TextOnly(Some("!"))>>
    /\ Content = [string |-> "Hi!"]

\* the indices, in ascending order, of the first n parts that yield an element
YieldingUpTo(n) ==
    LET F[i \in 0..n] ==
            IF i = 0 THEN <<>>
            ELSE IF IsImageInlinePart(TargetParts[i]) \/ HasText(TargetParts[i])
                 THEN Append(F[i - 1], i)
                 ELSE F[i - 1]
    IN  F[n]

InMixedCase == AnyImageInlinePart /\ pc \in {"process", "respond", "done"}
PartsProcessed == respIdx - 1

\* the element el is what the part at index i yields
ElementOf(el, i) ==
    IF IsImageInlinePart(TargetParts[i])
    THEN /\ el.type = "image_url"
         /\ \E j \in 1..Len(uploads) :
                uploads[j].part = i /\ el.image_url.url = uploads[j].returned.value
    ELSE el.type = "text" /\ el.text = TargetParts[i].text[1]

\* C6: in the mixed case the output list follows the order of the parts: a
\* text part gives one text element, an image part one image_url element at the
\* same relative position, any other part nothing; the uploads are made in the
\* order of the parts, so their completion cannot reorder the list
C6_OrderPreserved ==
    InMixedCase =>
        LET idx == YieldingUpTo(PartsProcessed) IN
        /\ Len(processedParts) = Len(idx)
        /\ \A k \in 1..Len(idx) : ElementOf(processedParts[k], idx[k])
        /\ \A j \in 1..Len(uploads) : \A l \in 1..Len(uploads) :
               j < l => uploads[j].part < uploads[l].part
        /\ Completed => PartsProcessed = Len(TargetParts) /\ Content = [parts |-> processedParts]

\* an image, a part with neither image nor text, a text: two elements in that order
C6_Witness ==
    /\ Completed
    /\ TargetParts = <<Inline("image/jpeg", Some(JpegData)), TextOnly(None),
                       TextOnly(Some("Hi"))>>
    /\ Len(Content.parts) = 2
    /\ Content.parts[1].type = "image_url"
    /\ Content.parts[2] = [type |-> "text", text |-> "Hi"]

\* the upload attempt of a log entry failed: the server could not be reached,
\* answered with an error status, or answered with an unrecognized body
UploadFailed(u) ==
    u.outcome.kind \in {"reject", "status"} \/ u.outcome.data \in UnrecognizedBodies

\* the position in the output of the element of the part at index i
PositionOf(i) == Len(YieldingUpTo(i))

DataUrlOf(p) == "data:" \o p.inlineData[1].mimeType[1] \o ";base64," \o p.inlineData[1].data[1]

IsFailureMarker(el) ==
    /\ el.type = "text"
    /\ StartsWith(el.text, "[Image processing failed: ")
    /\ EndsWith(el.text, "]")

\* the response is not aborted and every part is processed
NotAborted ==
    (AnyImageInlinePart /\ pc = "done") =>
        /\ Completed
        /\ IsList(Content)
        /\ Len(Content.parts) = PositionOf(Len(TargetParts))

\* C8 as stated: when the upload of an image part fails, the output holds the
\* text element "[Image processing failed: <reason>]" at that part's position
\* and the remaining parts are still processed
C8_FailureLeavesMarker ==
    /\ \A j \in 1..Len(uploads) :
           UploadFailed(uploads[j]) =>
               IsFailureMarker(processedParts[PositionOf(uploads[j].part)])
    /\ NotAborted

\* C8 amended: when the upload of an image part fails, the output holds, at
\* that part's position, an image_url element whose URL is the data URL made
\* of the part's MIME type and payload, and the remaining parts are still
\* processed
C8_FailureLeavesDataUrl ==
    /\ \A j \in 1..Len(uploads) :
           UploadFailed(uploads[j]) =>
               LET el == processedParts[PositionOf(uploads[j].part)] IN
               /\ el.type = "image_url"
               /\ el.image_url.url = DataUrlOf(TargetParts[uploads[j].part])
    /\ NotAborted

\* a failed upload of the first part, and the text after it still delivered
C8_Witness ==
    /\ Completed
    /\ TargetParts = <<Inline("image/png", Some(PngData)), TextOnly(Some("Hi"))>>
    /\ UploadFailed(uploads[1])
    /\ Content.parts = <<[type |-> "image_url",
                          image_url |-> [url |-> "data:image/png;base64,iVBORw0KGgo="]],
                         [type |-> "text", text |-> "Hi"]>>

\* the answer's finish reason and usage block, and what was written for them
UpstreamFinishReason == geminiResponse[1].candidates[1][1].finishReason
UpstreamUsage == geminiResponse[1].usageMetadata
WrittenFinishReason == Last(responses).body.finish_reason
WrittenUsage == Last(responses).body.usage

\* C12: STOP and RECITATION are normalized to stop, MAX_TOKENS to length,
\* SAFETY to content_filter, every other value (an absent reason and stop
\* itself included) to stop; the result is one of stop, length, content_filter
C12_FinishReasonNormalized ==
    Completed =>
        /\ WrittenFinishReason \in {"stop", "length", "content_filter"}
        /\ UpstreamFinishReason \in {Some("STOP"), Some("RECITATION")}
               => WrittenFinishReason = "stop"
        /\ UpstreamFinishReason = Some("MAX_TOKENS") => WrittenFinishReason = "length"
        /\ UpstreamFinishReason = Some("SAFETY") => WrittenFinishReason = "content_filter"
        /\ UpstreamFinishReason \notin {Some("MAX_TOKENS"), Some("SAFETY")}
               => WrittenFinishReason = "stop"

\* a safety ending was written as content_filter
C12_Witness ==
    /\ Completed
    /\ UpstreamFinishReason = Some("SAFETY")
    /\ WrittenFinishReason = "content_filter"

\* the value stop, which is no upstream reason, stays stop
C12_WitnessNormalized ==
    /\ Completed
    /\ UpstreamFinishReason = Some("stop")
    /\ WrittenFinishReason = "stop"

\* a counter of the upstream usage block, None when the block or the counter is missing
Supplied(field) == IF UpstreamUsage = None THEN None ELSE UpstreamUsage[1][field]

\* C13: a missing prompt counter and a missing completion counter (under
\* either of its names) are reported as 0, a supplied one as it is, and when
\* the upstream supplies no total, total_tokens is prompt_tokens plus
\* completion_tokens
C13_UsageDefaults ==
    Completed =>
        /\ Supplied("promptTokenCount") = None => WrittenUsage.prompt_tokens = 0
        /\ Supplied("promptTokenCount") /= None
               => WrittenUsage.prompt_tokens = Supplied("promptTokenCount")[1]
        /\ (Supplied("candidatesTokenCount") = None /\ Supplied("candidateTokenCount") = None)
               => WrittenUsage.completion_tokens = 0
        /\ Supplied("candidatesTokenCount") /= None
               => WrittenUsage.completion_tokens = Supplied("candidatesTokenCount")[1]
        /\ Supplied("totalTokenCount") = None
               => WrittenUsage.total_tokens =
                      WrittenUsage.prompt_tokens + WrittenUsage.completion_tokens
        /\ Supplied("totalTokenCount") /= None
               => WrittenUsage.total_tokens = Supplied("totalTokenCount")[1]

\* the example of the specification: prompt 10, candidates 5, no total give 15
C13_Witness ==
    /\ Completed
    /\ UpstreamUsage = Some([promptTokenCount |-> Some(10), candidatesTokenCount |-> Some(5),
                             candidateTokenCount |-> None, totalTokenCount |-> None])
    /\ WrittenUsage = [prompt_tokens |-> 10, completion_tokens |-> 5, total_tokens |-> 15]

\* no usage block at all: three zeros
C13_WitnessNoUsage ==
    /\ Completed
    /\ UpstreamUsage = None
    /\ geminiResponse[1].candidates[1][1].finishReason = Some("OTHER")
    /\ WrittenUsage = [prompt_tokens |-> 0, completion_tokens |-> 0, total_tokens |-> 0]

\* the handler caught an error of the Target API call and answered it
ErrorAnswered == pc = "done" /\ thrown /= None /\ responses /= <<>>
ThrownMessage == IF thrown[1].message = None THEN "" ELSE thrown[1].message[1]

\* the status codes that the error messages mention, with their decimal text
CodeText == (400 :> "400") @@ (404 :> "404") @@ (429 :> "429") @@ (500 :> "500")
              @@ (503 :> "503")

\* the codes found after "got status:" and in a JSON error fragment of a text
GotStatusCodes(text) ==
    {c \in DOMAIN CodeText : \/ Includes(text, "got status: " \o CodeText[c])
                             \/ Includes(text, "got status:" \o CodeText[c])}
JsonErrorCodes(text) ==
    {c \in DOMAIN CodeText : /\ Includes(text, "{\"error\":{")
                             /\ Includes(text, "\"code\":" \o CodeText[c])}

\* the code recoverable from a text: the one after "got status:", otherwise
\* the one of the JSON fragment, otherwise 500
CodeInText(text) ==
    IF GotStatusCodes(text) /= {} THEN CHOOSE c \in GotStatusCodes(text) : TRUE
    ELSE IF JsonErrorCodes(text) /= {} THEN CHOOSE c \in JsonErrorCodes(text) : TRUE
    ELSE 500

NamesInvalidCredential(text) ==
    \/ Includes(ToLowerCase(text), "api key not valid")
    \/ Includes(ToLowerCase(text), "api_key_invalid")

StatusFromText(text) == IF NamesInvalidCredential(text) THEN 401 ELSE CodeInText(text)

\* the error is one of the Target API by its name or by its message
RecognizedAsTargetApiError(error) ==
    \/ "GoogleGenerativeAIError" \in {error.name, error.constructorName}
    \/ Includes(ThrownMessage, "GoogleGenerativeAI")
    \/ Includes(ThrownMessage, "got status:")

\* C16 as stated: whenever the Target API call throws, the status answered
\* is the code after "got status:" in the error text, otherwise the code of
\* the JSON error fragment, otherwise 500, and 401 for an invalid-credential
\* message whatever code was found
C16_StatusFromAnyError ==
    ErrorAnswered => Last(responses).status = StatusFromText(ThrownMessage)

\* C16 amended: the same, for the thrown errors that are recognized as errors
\* of the Target API (by the name GoogleGenerativeAIError, or by a message
\* containing GoogleGenerativeAI or "got status:")
C16_StatusFromRecognizedError ==
    (ErrorAnswered /\ RecognizedAsTargetApiError(thrown[1]))
        => Last(responses).status = StatusFromText(ThrownMessage)

\* a JSON fragment with 503 ahead of "got status: 500": 500 is answered
C16_Witness ==
    /\ ErrorAnswered
    /\ GotStatusCodes(ThrownMessage) = {500}
    /\ JsonErrorCodes(ThrownMessage) = {503}
    /\ Last(responses).status = 500

\* an invalid-key message that carries the code 400 is answered 401
C16_WitnessCredential ==
    /\ ErrorAnswered
    /\ GotStatusCodes(ThrownMessage) = {400}
    /\ NamesInvalidCredential(ThrownMessage)
    /\ Last(responses).status = 401

\* the code of a JSON fragment whose code is not its first field, and no
\* code at all
C16_WitnessJson ==
    /\ ErrorAnswered
    /\ thrown[1].message = Some("[GoogleGenerativeAI Error]: {\"error\":{\"message\":\"quota\",\"code\":429}}")
    /\ Last(responses).status = 429
C16_WitnessNoCode ==
    /\ ErrorAnswered
    /\ thrown[1].message = Some("got status: unknown")
    /\ Last(responses).status = 500

\* an error that is not recognized: its text holds the code 429, 500 is answered
C16_WitnessUnrecognized ==
    /\ ErrorAnswered
    /\ ~RecognizedAsTargetApiError(thrown[1])
    /\ JsonErrorCodes(ThrownMessage) = {429}
    /\ Last(responses).status = 500

(***************************************************************************)
(* Properties of the asset publisher (checked under SpecPub)               *)
(***************************************************************************)
Published == pc = "published"

\* the shapes of a body that carry the store's URL
HasFileUrl(b) == "object" \in DOMAIN b /\ b.object.fileUrl \notin {None, Some("")}
HasUrl(b) == "object" \in DOMAIN b /\ b.object.url \notin {None, Some("")}
HasSuccessUrl(b) == HasUrl(b) /\ b.object.success = Some(TRUE)
IsHttpString(b) ==
    "string" \in DOMAIN b /\ Len(b.string) >= 4 /\ SubSeq(b.string, 1, 4) = "http"
HasStoreUrl(b) == HasFileUrl(b) \/ HasSuccessUrl(b) \/ HasUrl(b) \/ IsHttpString(b)

\* the URL of the first shape, in the stated order, that the body has
StoreUrlOf(b) ==
    IF HasFileUrl(b) THEN b.object.fileUrl[1]
    ELSE IF HasSuccessUrl(b) THEN b.object.url[1]
    ELSE IF HasUrl(b) THEN b.object.url[1]
    ELSE b.string

AttemptFails(o) == o.kind \in {"reject", "status"} \/ ~HasStoreUrl(o.data)

FallbackOf(call) == "data:" \o call.mimeType \o ";base64," \o call.base64Data

\* C7: the publisher never raises, and whenever the upload attempt fails
\* (store unreachable, error status, unrecognized body) it returns the data
\* URL made of the original MIME type and the original base64 payload
C7_PublishNeverRaises ==
    Published =>
        /\ ~pub.returned[1].threw
        /\ AttemptFails(pub.outcome) => pub.returned[1].value = FallbackOf(pub)

\* the example of the specification: the endpoint is unreachable for a PNG
C7_Witness ==
    /\ Published
    /\ pub.outcome.kind = "reject"
    /\ pub.mimeType = "image/png"
    /\ pub.returned[1].value = "data:image/png;base64," \o pub.base64Data

\* C9: the upload attempt yields the store's URL exactly when the status is a
\* success and the body is an object with fileUrl, an object with success true
\* and url, an object with url, or a string starting with http, the shapes
\* being tried in that order; every other body and every error status is a
\* failure, which gives the data URL and raises nothing
C9_UploadResponseShapes ==
    Published =>
        LET a == pub.attempt[1]
            o == pub.outcome IN
        /\ a.ok <=> (o.kind = "ok" /\ HasStoreUrl(o.data))
        /\ a.ok => a.url = StoreUrlOf(o.data) /\ pub.returned[1].value = a.url
        /\ ~a.ok => pub.returned[1].value = FallbackOf(pub) /\ ~pub.returned[1].threw

\* a body with both fileUrl and url: fileUrl wins
C9_Witness ==
    /\ Published
    /\ pub.outcome.kind = "ok"
    /\ HasFileUrl(pub.outcome.data) /\ HasUrl(pub.outcome.data)
    /\ pub.attempt[1] = [ok |-> TRUE, url |-> StoreUrlA]

\* an error status whose body has the shape of a success is a failure all the same
C9_WitnessStatus ==
    /\ Published
    /\ pub.outcome.kind = "status"
    /\ HasFileUrl(pub.outcome.data)
    /\ ~pub.attempt[1].ok
    /\ pub.returned[1].value = FallbackOf(pub)

(***************************************************************************)
(* Properties of the URL rewrite (checked under SpecTransform)             *)
(***************************************************************************)
\* what the call was given and what it gave back, read as URLs
GivenUrl == ParseUrl(xform.url)
ReturnedUrl == ParseUrl(xform.returned[1])
SourceHostname == xform.env.TRANSFORM_SOURCE_HOSTNAME
TargetHostname == IF Truthy(xform.env.TRANSFORM_TARGET_HOSTNAME)
                  THEN xform.env.TRANSFORM_TARGET_HOSTNAME[1] ELSE "localhost"
TargetProtocol == IF Truthy(xform.env.TRANSFORM_TARGET_PROTOCOL)
                  THEN xform.env.TRANSFORM_TARGET_PROTOCOL[1] ELSE "http:"
TargetPort == xform.env.TRANSFORM_TARGET_PORT
\* the port a URL is served on: its own, or the default of its scheme
EffectivePort(u) == IF u.port = "" THEN DefaultPort(u.protocol) ELSE u.port

\* a source hostname is configured and the URL's hostname equals it exactly
HostnameMatches ==
    /\ SourceHostname /= None
    /\ SourceHostname[1] /= ""
    /\ GivenUrl /= None
    /\ GivenUrl[1].hostname = SourceHostname[1]

C18_WitnessOtherHost ==
    /\ xform /= None /\ xform.returned /= None
    /\ SourceHostname = <<"bucket.example.com">>
    /\ xform.url = "https://cdn.bucket.example.com/a.png"
    /\ xform.returned[1] = xform.url

\* an unparsable URL came back unchanged although a source hostname is configured
C18_WitnessUnparsable ==
    /\ xform /= None /\ xform.returned /= None
    /\ SourceHostname = <<"bucket.example.com">>
    /\ xform.url = "bucket.example.com/a.png"
    /\ xform.returned[1] = xform.url

\* with no target port configured the input's own port stays in the rewritten URL
C18_WitnessPortKept ==
    /\ xform /= None /\ xform.returned /= None
    /\ HostnameMatches
    /\ TargetPort = None
    /\ xform.url = "https://bucket.example.com:8443/files/a.png"
    /\ xform.returned[1] = "http://localhost:8443/files/a.png"

(***************************************************************************)
(* Properties of redirect resolution (checked under SpecGround)            *)
(***************************************************************************)
\* the resolutions that were started for a link
Resolutions == {i \in 1..Len(rr) : rr[i].uri /= None}
\* the redirects resolution i has followed: requests to a URL other than the last
Hops(i) == Cardinality({k \in 2..Len(rr[i].requests) :
                           rr[i].requests[k].url /= rr[i].requests[k - 1].url})
\* resolution i has returned without reaching a final (2xx) URL
GaveUp(i) == rr[i].state = "resolved" /\ rr[i].ended /= "final"

\* C19 as stated: no resolution is rejected or throws, whatever the link and the
\* servers, and an answer with citation links is never answered with an error.
C19_ResolutionNeverRaises ==
    /\ \A i \in Resolutions : rr[i].state \notin {"rejected", "thrown"}
    /\ pc /= "crashed"
    /\ \A k \in 1..Len(responses) : responses[k].status = 200

\* C20 as stated: a resolution that gives up after at least one hop returns the
\* URL it was called with.
C20_GiveUpReturnsOriginal ==
    \A i \in Resolutions :
        GaveUp(i) /\ Hops(i) >= 1 => rr[i].value = rr[i].uri

\* the link "not a url": the resolution is rejected and the request is answered 500
C19_WitnessRejected ==
    /\ pc = "done"
    /\ \E i \in Resolutions : rr[i].uri = <<"not a url">> /\ rr[i].state = "rejected"
    /\ Len(responses) = 1
    /\ responses[1].status = 500

\* an unparsable Location header: the exception ends the process, nothing is answered
C19_WitnessUncaught ==
    /\ pc = "crashed"
    /\ \E i \in Resolutions : rr[i].state = "thrown" /\ rr[i].url = UrlB
    /\ responses = <<>>

\* a connection error, a timeout and an unexpected status do resolve to a URL
C19_WitnessDegraded ==
    /\ pc = "done"
    /\ \E i \in Resolutions :
          rr[i].state = "resolved" /\ rr[i].ended \in {"error", "timeout", "status"}
    /\ responses[1].status = 200

\* a connection error at the second URL: that URL is returned, not the link
C20_WitnessError ==
    \E i \in Resolutions :
        /\ rr[i].uri = <<LinkA>>
        /\ rr[i].ended = "error"
        /\ rr[i].value = <<UrlB>>

\* the same for a timeout at the second URL
C20_WitnessTimeout ==
    \E i \in Resolutions :
        /\ rr[i].uri = <<LinkA>>
        /\ rr[i].ended = "timeout"
        /\ rr[i].value = <<UrlB>>

\* the hop limit: the eleventh URL of the chain is returned
C20_WitnessMaxRedirects ==
    \E i \in Resolutions :
        /\ rr[i].uri = <<ChainUrl(1)>>
        /\ rr[i].ended = "max redirects"
        /\ rr[i].value = <<ChainUrl(11)>>

\* a cycle among the redirect targets: the URL met twice is returned
C20_WitnessCircular ==
    \E i \in Resolutions :
        /\ rr[i].uri = <<LinkLoop>>
        /\ rr[i].ended = "circular"
        /\ rr[i].value = <<"https://loop.example/2">>

\* a cycle through the link itself does return the link
C20_WitnessBackToLink ==
    \E i \in Resolutions :
        /\ rr[i].uri = <<LinkA>>
        /\ rr[i].ended = "circular"
        /\ Hops(i) >= 1
        /\ rr[i].value = rr[i].uri

\* request l of resolution i is the GET retry of the refused HEAD request before it
IsGetRetry(i, l) ==
    /\ l >= 2
    /\ rr[i].requests[l].method = "GET"
    /\ rr[i].requests[l - 1].method = "HEAD"
    /\ rr[i].requests[l - 1].url = rr[i].requests[l].url
    /\ ServerAnswer(net, "HEAD", rr[i].requests[l].url).kind = "status"
    /\ ServerAnswer(net, "HEAD", rr[i].requests[l].url).statusCode \in {403, 405}

\* C21: a resolution follows at most 10 redirects, and it sends no request for a
\* URL it has requested before, except the GET retry that directly follows a
\* HEAD request answered 403 or 405, of which there is at most one.
C21_HopsAndVisitsBounded ==
    \A i \in Resolutions :
        /\ Hops(i) <= 10
        /\ \A k, l \in 1..Len(rr[i].requests) :
              k < l /\ rr[i].requests[k].url = rr[i].requests[l].url
                 => l = k + 1 /\ IsGetRetry(i, l)
        /\ Cardinality({l \in 1..Len(rr[i].requests) : IsGetRetry(i, l)}) <= 1

\* the chain of redirects was followed for ten hops and then left
C21_Witness ==
    \E i \in Resolutions :
        /\ rr[i].uri = <<ChainUrl(1)>>
        /\ rr[i].state = "resolved"
        /\ Hops(i) = 10
        /\ Len(rr[i].requests) = 11

\* a loop of redirects was left when it came back to a visited URL
C21_WitnessLoop ==
    \E i \in Resolutions :
        /\ rr[i].uri = <<LinkLoop>>
        /\ rr[i].state = "resolved"
        /\ Len(rr[i].requests) = 3

\* a refused HEAD request was followed by its GET retry and the redirects after it
C21_WitnessRetry ==
    \E i \in Resolutions :
        /\ rr[i].state = "resolved"
        /\ Len(rr[i].requests) = 4
        /\ IsGetRetry(i, 2)
        /\ Hops(i) = 2

\* request k of resolution i has been answered
Answered(i, k) == k < Len(rr[i].requests) \/ rr[i].state /= "inflight"
\* the server answers request k of resolution i with 403 or 405
Refused(i, k) ==
    LET answer == ServerAnswer(net, rr[i].requests[k].method, rr[i].requests[k].url)
    IN answer.kind = "status" /\ answer.statusCode \in {403, 405}

\* C22: once a HEAD request has been answered 403 or 405, the next request is a
\* GET for the same URL and it is the only GET for that URL; once a GET request
\* has been answered 403 or 405, it is the last request and the resolution has
\* returned its URL.
C22_RefusedHeadRetriedOnce ==
    \A i \in Resolutions : \A k \in 1..Len(rr[i].requests) :
        Answered(i, k) /\ Refused(i, k) =>
            IF rr[i].requests[k].method = "HEAD"
            THEN /\ k < Len(rr[i].requests)
                 /\ rr[i].requests[k + 1] = [method |-> "GET", url |-> rr[i].requests[k].url]
                 /\ Cardinality({l \in 1..Len(rr[i].requests) :
                                   rr[i].requests[l] = rr[i].requests[k + 1]}) = 1
            ELSE /\ k = Len(rr[i].requests)
                 /\ rr[i].state = "resolved"
                 /\ rr[i].value = Some(rr[i].requests[k].url)

\* HEAD and GET were both refused at the second URL, and that URL was returned
C22_Witness ==
    \E i \in Resolutions :
        /\ rr[i].state = "resolved"
        /\ rr[i].requests = <<[method |-> "HEAD", url |-> LinkA],
                              [method |-> "HEAD", url |-> UrlB],
                              [method |-> "GET", url |-> UrlB]>>
        /\ Refused(i, 2) /\ Refused(i, 3)
        /\ rr[i].value = <<UrlB>>

\* a HEAD request was refused with 405 and the GET retry was answered
C22_WitnessRetryAnswered ==
    \E i \in Resolutions :
        /\ rr[i].state = "resolved"
        /\ Len(rr[i].requests) = 4
        /\ Refused(i, 1) /\ ~Refused(i, 2)
        /\ rr[i].requests[2] = [method |-> "GET", url |-> LinkA]
        /\ rr[i].value = <<UrlC>>

\* all the resolutions of the answer's links have returned a URL
AllResolved == \A i \in Resolutions : rr[i].state = "resolved"

\* C23 as stated (checked under LiveGround): once the resolutions of an answer's
\* links have started, every one of them eventually returns, whatever the servers do.
C23_EveryResolutionReturns == (pc = "resolving") ~> AllResolved

\* with servers that neither trickle their answer nor send an unparsable Location
\* header every resolution does return: timeouts, errors, endless redirects and
\* cycles of redirects all end
C23_ReturnsUnlessSlowOrUnparsable ==
    (pc = "resolving" /\ net.fault \notin {"slow", "unparsable Location"}) ~> AllResolved

\* a resolution waits for a server that trickles its answer
C23_WitnessSlow ==
    /\ pc = "resolving"
    /\ net.fault = "slow"
    /\ \E i \in Resolutions : rr[i].state = "inflight" /\ rr[i].url = net.at

\* the chain of redirects that never ends was left at the hop limit
C23_WitnessEndless ==
    /\ pc = "done"
    /\ \E i \in Resolutions : rr[i].ended = "max redirects"

\* the chunks the target API sent, and the chunks of a written answer
SentChunks == groundingDataChunks[1]
WrittenChunks(k) == responses[k].body.google_gemini_body.groundingMetadata.groundingChunks
HasWrittenChunks(k) ==
    responses[k].status = 200 /\ "google_gemini_body" \in DOMAIN responses[k].body

\* C24: the answer carries as many chunks as the target API sent, in the same
\* order, a chunk without link as it was and a chunk with a link with the URL that
\* resolving this link alone, with a visited set of its own, returns.
C24_ResolutionsIndependent ==
    \A k \in 1..Len(responses) :
        HasWrittenChunks(k) =>
            /\ Len(WrittenChunks(k)) = Len(SentChunks)
            /\ \A i \in 1..Len(SentChunks) :
                  IF SentChunks[i].web /= None /\ Truthy(SentChunks[i].web[1].uri)
                  THEN /\ WrittenChunks(k)[i].web[1].uri = SentChunks[i].web[1].uri
                       /\ WrittenChunks(k)[i].web[1].title = SentChunks[i].web[1].title
                       /\ Some(WrittenChunks(k)[i].web[1].resolved_uri)
                            = resolveRedirects(net, SentChunks[i].web[1].uri[1], {}, "HEAD")
                  ELSE WrittenChunks(k)[i] = SentChunks[i]

\* two links whose redirects meet at the same URLs were resolved side by side
C24_Witness ==
    /\ Len(responses) = 1
    /\ HasWrittenChunks(1)
    /\ Len(SentChunks) = 2
    /\ SentChunks[1] = Chunk(Web(Some(LinkA)))
    /\ SentChunks[2] = Chunk(Web(Some(LinkA)))
    /\ WrittenChunks(1)[1].web[1].resolved_uri = UrlC
    /\ WrittenChunks(1)[2].web[1].resolved_uri = UrlC

\* two different links came back in the order of their chunks
C24_WitnessOrder ==
    /\ Len(responses) = 1
    /\ HasWrittenChunks(1)
    /\ Len(SentChunks) = 2
    /\ SentChunks[1] = Chunk(Web(Some(ChainUrl(1))))
    /\ SentChunks[2] = Chunk(Web(Some(LinkLoop)))
    /\ WrittenChunks(1)[1].web[1].resolved_uri = ChainUrl(11)
    /\ WrittenChunks(1)[2].web[1].resolved_uri = "https://loop.example/2"

(***************************************************************************)
(* Properties of the image fetch (checked under SpecFetchImage)            *)
(***************************************************************************)
FetchReturned == fetchCall /= None /\ fetchCall.returned /= None
SuccessStatus == fetchCall.outcome.kind = "ok"
IsImageType(t) == t /= None /\ Len(t[1]) >= 6 /\ SubSeq(t[1], 1, 6) = "image/"

C25_WitnessDefault ==
    /\ FetchReturned /\ SuccessStatus
    /\ fetchCall.header = None
    /\ fetchCall.imageUrl = "https://img.example/b"
    /\ fetchCall.returned[1].ok
    /\ fetchCall.returned[1].mimeType = "image/jpeg"

\* an image header wins over the extension, parameters included
C25_WitnessHeader ==
    /\ FetchReturned /\ SuccessStatus
    /\ fetchCall.header = <<"image/webp; q=1">>
    /\ fetchCall.imageUrl = "https://img.example/a.png"
    /\ fetchCall.returned[1].mimeType = "image/webp; q=1"

\* a non-image extension is not used either
C25_WitnessPdf ==
    /\ FetchReturned /\ SuccessStatus
    /\ fetchCall.header = <<"application/octet-stream">>
    /\ fetchCall.imageUrl = "https://files.example/doc.pdf"
    /\ fetchCall.returned[1].mimeType = "image/jpeg"

(***************************************************************************)
(* Properties of the whole handler (checked under SpecHandler)             *)
(***************************************************************************)
\* C26: the target API is called at most once, no media part is fetched twice and
\* no part of the answer is uploaded twice, after a failure as after a success.
C26_NothingRetried ==
    /\ Len(apiCalls) <= 1
    /\ \A j, l \in 1..Len(fetches) :
          j < l => <<fetches[j].msg, fetches[j].part>> /= <<fetches[l].msg, fetches[l].part>>
    /\ \A j, l \in 1..Len(uploads) : j < l => uploads[j].part /= uploads[l].part

\* the call of the target API failed and the request was answered with the error
C26_Witness ==
    /\ pc = "done"
    /\ thrown /= None
    /\ Len(apiCalls) = 1
    /\ Len(responses) = 1
    /\ responses[1].status /= 200

\* the second fetch of a request failed and the request was answered 400
C26_WitnessFetch ==
    /\ pc = "done"
    /\ Len(fetches) = 2
    /\ ~fetches[2].result.ok
    /\ apiCalls = <<>>
    /\ responses[1].status = 400

\* an upload failed and the answer was written all the same
C26_WitnessUpload ==
    /\ pc = "done"
    /\ \E j \in 1..Len(uploads) : uploads[j].outcome.kind /= "ok"
    /\ Len(apiCalls) = 1
    /\ responses[1].status = 200

\* the handler has come to its end, or the process has
Ended == pc \in {"done", "crashed"}

\* C27 as stated: a request is never answered twice, and when its handling has
\* ended it has been answered once.
C27_ExactlyOneResponse ==
    /\ Len(responses) <= 1
    /\ Ended => Len(responses) = 1

\* never two responses, and one response whenever the handler itself reaches its end
C27_AtMostOneResponse ==
    /\ Len(responses) <= 1
    /\ pc = "done" => Len(responses) = 1

\* the handling of a request ended without a response: the exception thrown for an
\* unparsable Location header ended the process
C27_WitnessNoResponse ==
    /\ pc = "crashed"
    /\ responses = <<>>
    /\ \E i \in 1..Len(rr) : rr[i].state = "thrown"

(***************************************************************************)
(* Properties of the content blocks (checked under Spec)                   *)
(***************************************************************************)

IsRecognizedPart(p) == p.type \in {"text", "image_url", "file_url"}

\* a message other than a system message whose content is a part list with
\* no part of a recognized type (an empty list among them)
GivesNoParts(msg) ==
    /\ msg.role /= "system"
    /\ ~IsString(msg.content)
    /\ SelectSeq(msg.content.parts, IsRecognizedPart) = <<>>

GivesParts(msg) == msg.role /= "system" /\ ~GivesNoParts(msg)

\* C28: every content block, in the list being built and in the list sent to
\* the target API, has at least one part; the blocks sent are one for each
\* message that is not a system message and gives a part, so a message with
\* an empty part list or with parts of unrecognized types only has no block
C28_NoEmptyBlock ==
    /\ \A b \in 1..Len(geminiContents) : Len(geminiContents[b].parts) >= 1
    /\ \A c \in 1..Len(apiCalls) :
          /\ \A b \in 1..Len(apiCalls[c].contents) : Len(apiCalls[c].contents[b].parts) >= 1
          /\ Len(apiCalls[c].contents) = Len(SelectSeq(openAIMessages, GivesParts))

\* a message with one part of an unrecognized type, then a message with a
\* string: one block was sent, the block of the second message
C28_Witness ==
    /\ Len(apiCalls) = 1
    /\ Len(openAIMessages) = 2
    /\ openAIMessages[1] = [role |-> "user", content |-> [parts |-> <<[type |-> "audio_url"]>>]]
    /\ openAIMessages[2] = [role |-> "user", content |-> [string |-> "s"]]
    /\ apiCalls[1].contents = <<[role |-> "user", parts |-> <<[text |-> "s"]>>]>>

\* a message with an empty part list has no block either
C28_WitnessEmptyList ==
    /\ Len(apiCalls) = 1
    /\ \E i \in 1..Len(openAIMessages) :
          /\ openAIMessages[i].role = "user"
          /\ openAIMessages[i].content = [parts |-> <<>>]
    /\ Len(apiCalls[1].contents) = Len(openAIMessages) - 1

(***************************************************************************)
(* Properties of the system messages (checked under Spec)                  *)
(***************************************************************************)

IsMediaTarget(p) == DOMAIN p /= {"text"}

\* the number of media parts in the blocks of a contents list
RECURSIVE MediaTargets(_)
MediaTargets(contents) ==
    IF contents = <<>> THEN 0
    ELSE Len(SelectSeq(Head(contents).parts, IsMediaTarget)) + MediaTargets(Tail(contents))

\* the number of media parts in the messages that are not system messages
RECURSIVE MediaSources(_)
MediaSources(msgs) ==
    IF msgs = <<>> THEN 0
    ELSE (IF Head(msgs).role = "system" \/ IsString(Head(msgs).content) THEN 0
          ELSE Len(SelectSeq(Head(msgs).content.parts, IsMediaSource)))
           + MediaSources(Tail(msgs))

HasMedia(msg) ==
    ~IsString(msg.content) /\ SelectSeq(msg.content.parts, IsMediaSource) /= <<>>

IsFetchFailure(response) ==
    /\ response.status = 400
    /\ StartsWith(response.body.error, "Failed to process")

\* C29: no fetch is made for a part of a system message; the system
\* instruction sent holds text parts only and the blocks sent hold as many
\* media parts as the other messages have; and a request is answered with a
\* fetch failure only for a failed fetch of a part of another message
C29_SystemMediaUntouched ==
    /\ \A f \in 1..Len(fetches) : openAIMessages[fetches[f].msg].role /= "system"
    /\ \A c \in 1..Len(apiCalls) :
          /\ \A p \in 1..Len(SystemPartsOf(apiCalls[c].config.systemInstruction)) :
                DOMAIN SystemPartsOf(apiCalls[c].config.systemInstruction)[p] = {"text"}
          /\ MediaTargets(apiCalls[c].contents) = MediaSources(openAIMessages)
    /\ \A i \in 1..Len(responses) :
          IsFetchFailure(responses[i]) =>
             /\ fetches /= <<>>
             /\ ~Last(fetches).result.ok
             /\ openAIMessages[Last(fetches).msg].role /= "system"

\* a system message with an image part and a user message: the request was
\* sent to the target API with no fetch and no media part
C29_Witness ==
    /\ Len(apiCalls) = 1
    /\ Len(openAIMessages) = 2
    /\ openAIMessages[1].role = "system"
    /\ HasMedia(openAIMessages[1])
    /\ openAIMessages[1].content.parts[1].type = "image_url"
    /\ openAIMessages[2].role = "user"
    /\ fetches = <<>>
    /\ MediaTargets(apiCalls[1].contents) = 0
    /\ apiCalls[1].config.systemInstruction = None

\* a system message with a file part that is no video link, next to a user
\* message whose image was fetched: one fetch, one media part sent
C29_WitnessFile ==
    /\ Len(apiCalls) = 1
    /\ \E i \in 1..Len(openAIMessages) :
          /\ openAIMessages[i].role = "system"
          /\ HasMedia(openAIMessages[i])
          /\ openAIMessages[i].content.parts[1].type = "file_url"
          /\ ~IsYoutubeUrl[openAIMessages[i].content.parts[1].url]
    /\ Len(fetches) = 1
    /\ MediaTargets(apiCalls[1].contents) = 1

(***************************************************************************)
(* Properties of the answers to other errors (checked under SpecResp)      *)
(***************************************************************************)

OtherErrorAnswered == ErrorAnswered /\ ~RecognizedAsTargetApiError(thrown[1])

HasResponseStatus(error) == error.response /= None /\ error.response[1].status /= None

\* C30 as stated: an error that is not recognized as an error of the target
\* API is answered with its status field if it has one, else with the status
\* of its response, else 500, whatever its message holds
C30_StatusFieldThenResponseStatus ==
    OtherErrorAnswered =>
        Last(responses).status =
            (IF thrown[1].status /= None THEN thrown[1].status[1]
             ELSE IF HasResponseStatus(thrown[1]) THEN thrown[1].response[1].status[1]
             ELSE 500)

\* C30 amended: the same, with the status of the response taken only when the
\* response also carries data; a response with a status and no data is
\* answered 500
C30_ResponseStatusNeedsData ==
    OtherErrorAnswered =>
        Last(responses).status =
            (IF thrown[1].status /= None THEN thrown[1].status[1]
             ELSE IF HasResponseStatus(thrown[1]) /\ Truthy(thrown[1].response[1].data)
                  THEN thrown[1].response[1].status[1]
             ELSE 500)

\* an error of another kind whose message is an invalid-key JSON fragment
\* with the code 400, with no status field and no response: answered 500
C30_Witness ==
    /\ OtherErrorAnswered
    /\ NamesInvalidCredential(ThrownMessage)
    /\ JsonErrorCodes(ThrownMessage) = {400}
    /\ thrown[1].status = None
    /\ thrown[1].response = None
    /\ Last(responses).status = 500

\* the status field wins over the status of the response and over the text
C30_WitnessStatusField ==
    /\ OtherErrorAnswered
    /\ JsonErrorCodes(ThrownMessage) = {429}
    /\ thrown[1].status = Some(418)
    /\ HasResponseStatus(thrown[1])
    /\ Last(responses).status = 418

\* the status of a response with data is answered
C30_WitnessResponse ==
    /\ OtherErrorAnswered
    /\ thrown[1].status = None
    /\ thrown[1].response = Some([status |-> Some(502), data |-> Some("bad gateway")])
    /\ Last(responses).status = 502

\* the status of a response without data is not: 500 is answered
C30_WitnessNoData ==
    /\ OtherErrorAnswered
    /\ thrown[1].status = None
    /\ thrown[1].response = Some([status |-> Some(502), data |-> None])
    /\ Last(responses).status = 500
====
